---- MODULE Spec2Model ----
(***************************************************************************)
(* Model of the bookmark reconciliation engine (WebExtBookmarkService).    *)
(*                                                                         *)
(* The specifications of this module:                                      *)
(*   SpecDrain  the native event queue, its debounce timer and the drain   *)
(*              (queueNativeBookmarkEvent, processNativeBookmarkEventsQueue)*)
(*   SpecDrainFair    SpecDrain with timers and continuations that run     *)
(*   SpecRecon  the classification of native changes and their effect on   *)
(*              the canonical tree and on the id-mapping table             *)
(*              (processNativeChangeOnBookmarks and what it calls)         *)
(*   SpecBackground   the listeners and message handlers of background.js  *)
(*   SpecAddBookmark  addBookmark and the tree its caller passed in        *)
(*   SpecSeparator    convertNativeBookmarkToSeparator                     *)
(*   SpecCreate       createNativeBookmarkTree and its promise chains      *)
(*   SpecReorder      reorderUnsupportedContainers and its native moves    *)
(*   SpecReplay       remote changes replayed on the native tree           *)
(*   SpecMessages     onMessageHandler and the responses it sends.         *)
(***************************************************************************)
EXTENDS Integers, Sequences, FiniteSets, TLC

\* ------------------------------------------------------------------ bounds
MaxEvents == 3
MaxDrains == 2
MaxNative == 2
MaxPending == 1
MaxSteps == 4
MaxSyncs == 2
MaxConversions == 1
MaxMessages == 2
MaxCalls == 3
MaxRefreshes == 2

\* ------------------------------------------------------------------ state
VARIABLES
    \* --- native event queue and debouncer -------------------------------
    nativeBookmarkEventsQueue,          \* this.nativeBookmarkEventsQueue
    processNativeBookmarkEventsTimeout, \* the $timeout handle: "unset", "pending", "elapsed"
    debounceTimers,                     \* the 200ms timers that are pending, each named by the event that started it
    timerAfter,                         \* drains whose 100ms timer was started before the pending debounce timer
    drains,                             \* the runs of processNativeBookmarkEventsQueue
    arrived,                            \* number of native events received so far
    syncChangesInFlight,                \* platformSvc.queueSync calls not yet settled, oldest first
    syncQueue,                          \* changes queued in the sync engine, in queueing order
    dispatched,                         \* events in the order they were taken from the queue
    reconciled,                         \* events whose handler and every step it started have completed
    listenersEnabled,                   \* native listeners registered
    \* --- reconciliation ---------------------------------------------------
    nativeTree,                         \* the host's bookmark tree
    nativeCreated,                      \* number of native nodes the host has created
    syncedBookmarks,                    \* the canonical tree as last adopted (cached / remote)
    bookmarkIdMappings,                 \* the persisted id-mapping table, an array
    syncBookmarksToolbar,               \* the "sync toolbar" setting
    queuedChanges,                      \* native changes queued for the sync engine, oldest first
    pendingCommit,                      \* the replacement tree returned and not yet adopted
    steps,                              \* edits, setting switches, failed syncs and remote changes so far
    last,                               \* what the last processed change was and gave
    \* --- listener registration ---------------------------------------------
    host,                               \* which code runs: "chrome" (background.js) or "webext" (the service)
    registered,                         \* the native bookmark listeners are registered with the browser
    syncEnabled,                        \* the persisted SyncEnabled flag
    syncs,                              \* the calls of syncBookmarks
    conversions,                        \* the separator conversions started by native events
    messages,                           \* messages and setting changes received so far
    \* --- calls of the tree mutators ----------------------------------------
    passedIn,                           \* the canonical tree a caller of addBookmark holds
    returned,                           \* what the last call of addBookmark gave back
    calls,                              \* calls of addBookmark made so far
    separator,                          \* the last conversion of a native node to a separator
    creation,                           \* the call of createNativeBookmarkTree
    reordering,                         \* the call of reorderUnsupportedContainers
    replay,                             \* the change being replayed on the native tree
    \* --- messages of the extension window --------------------------------
    handling                            \* the message onMessageHandler is handling

drainVars == <<nativeBookmarkEventsQueue, processNativeBookmarkEventsTimeout, debounceTimers, timerAfter,
               drains, arrived, syncChangesInFlight, syncQueue, dispatched, reconciled,
               listenersEnabled>>

reconVars == <<nativeTree, nativeCreated, syncedBookmarks, bookmarkIdMappings,
               syncBookmarksToolbar,
               queuedChanges, pendingCommit, steps, last>>

backgroundVars == <<host, registered, syncEnabled, syncs, conversions, messages>>

callVars == <<passedIn, returned, calls, separator, creation, reordering>>
replayVars == <<replay>>
messageVars == <<handling>>

vars == <<drainVars, reconVars, backgroundVars, callVars, replayVars, messageVars>>

\* BookmarkChangeType values that reach the queue
ChangeTypes == {"Add", "ChildrenReordered", "Remove", "Move", "Modify"}

\* Handlers defined in the base class: they start syncChange and return $q.resolve()
FireAndForget == {"Remove", "ChildrenReordered"}

DrainIds == 1..MaxDrains

IdleDrain == [pc |-> "idle", timer |-> 0, current |-> 0, failed |-> FALSE, syncCalls |-> 0,
              sawEmpty |-> FALSE, syncDone |-> FALSE, reorderDone |-> FALSE,
              enabled |-> FALSE, taken |-> <<>>]

Terminal(d) == drains[d].pc \in {"idle", "done", "aborted"}

Running(d) == ~Terminal(d)

\* A promise continuation that is already scheduled runs before any timer elapses
ImmediatePending == \E d \in DrainIds : drains[d].pc \in {"condition", "action"}

InitDrain ==
    /\ nativeBookmarkEventsQueue = <<>>
    /\ processNativeBookmarkEventsTimeout = "unset"
    /\ debounceTimers = {}
    /\ timerAfter = {}
    /\ drains = [d \in DrainIds |-> IdleDrain]
    /\ arrived = 0
    /\ syncChangesInFlight = <<>>
    /\ syncQueue = <<>>
    /\ dispatched = <<>>
    /\ reconciled = {}
    /\ listenersEnabled = TRUE

\* a queueNativeBookmarkEvent that leaves the timer of the handle running
noCancel(handle, latest, timers) == timers

\* if (this.processNativeBookmarkEventsTimeout) $timeout.cancel(it): the handle,
\* once set, is that of the timer the latest event started
timeoutCancel(handle, latest, timers) ==
    IF handle # "unset" THEN timers \ {latest} ELSE timers

\* onNativeBookmarkCreated/Changed/Moved/Removed -> queueNativeBookmarkEvent
queueNativeBookmarkEvent(changeType) ==
    /\ listenersEnabled
    /\ arrived < MaxEvents
    /\ arrived' = arrived + 1
    /\ debounceTimers' = timeoutCancel(processNativeBookmarkEventsTimeout, arrived, debounceTimers)
                            \cup {arrived + 1}
    /\ nativeBookmarkEventsQueue' =
         Append(nativeBookmarkEventsQueue, [changeType |-> changeType, n |-> arrived + 1])
    /\ processNativeBookmarkEventsTimeout' = "pending"
    /\ timerAfter' = {d \in DrainIds : drains[d].pc = "wait100"}
    /\ UNCHANGED <<drains, syncChangesInFlight, syncQueue, dispatched, reconciled,
                   listenersEnabled,
                   reconVars, backgroundVars, callVars, replayVars, messageVars>>

NativeEvent == \E t \in ChangeTypes : queueNativeBookmarkEvent(t)

\* A 200ms timer elapses: processNativeBookmarkEventsQueue starts, asyncWhile
\* evaluates its condition for the first time
processNativeBookmarkEventsQueue(d) ==
    /\ ~ImmediatePending
    /\ \A o \in timerAfter : drains[o].pc # "wait100"
    /\ Terminal(d)
    /\ \A o \in DrainIds : (o < d) => Running(o)
    /\ \E t \in debounceTimers :
          /\ debounceTimers' = debounceTimers \ {t}
          /\ processNativeBookmarkEventsTimeout' =
                IF t = arrived THEN "elapsed" ELSE processNativeBookmarkEventsTimeout
          /\ timerAfter' = IF t = arrived THEN {} ELSE timerAfter
          /\ drains' = [drains EXCEPT ![d] = [IdleDrain EXCEPT !.pc = "condition", !.timer = t]]
    /\ UNCHANGED <<nativeBookmarkEventsQueue, arrived, syncChangesInFlight, syncQueue,
                   dispatched, reconciled, listenersEnabled,
                   reconVars, backgroundVars, callVars, replayVars, messageVars>>

DebounceElapsed == \E d \in DrainIds : processNativeBookmarkEventsQueue(d)

\* asyncWhile: condition() has resolved; its continuation either calls action()
\* or resolves the loop, whose continuation starts the 100ms $timeout
asyncWhileCondition(d) ==
    /\ drains[d].pc = "condition"
    /\ drains' = [drains EXCEPT ![d] =
         IF Len(nativeBookmarkEventsQueue) > 0
            THEN [@ EXCEPT !.pc = "action"]
            ELSE [@ EXCEPT !.pc = "wait100", !.sawEmpty = TRUE]]
    /\ UNCHANGED <<nativeBookmarkEventsQueue, processNativeBookmarkEventsTimeout, debounceTimers,
                   timerAfter,
                   arrived, syncChangesInFlight, syncQueue, dispatched, reconciled,
                   listenersEnabled,
                   reconVars, backgroundVars, callVars, replayVars, messageVars>>

\* a shift() that reads the first event and leaves it in the queue
shiftKeeps(queue) == queue

\* this.nativeBookmarkEventsQueue.shift(): the queue without its first event
shift(queue) == Tail(queue)

\* action(): shift the first event and call its handler.  The handlers of the
\* base class (Remove, ChildrenReordered) call syncChange without waiting for it
\* and return an already resolved promise.
action(d) ==
    /\ drains[d].pc = "action"
    /\ IF Len(nativeBookmarkEventsQueue) = 0
          THEN \* shift() gave undefined: currentEvent.changeType throws
               /\ drains' = [drains EXCEPT ![d].pc = "aborted"]
               /\ UNCHANGED <<nativeBookmarkEventsQueue, dispatched, syncChangesInFlight>>
          ELSE LET currentEvent == Head(nativeBookmarkEventsQueue) IN
               /\ nativeBookmarkEventsQueue' = shift(nativeBookmarkEventsQueue)
               /\ dispatched' = Append(dispatched, currentEvent.n)
               /\ IF currentEvent.changeType \in FireAndForget
                     THEN /\ syncChangesInFlight' = Append(syncChangesInFlight, currentEvent.n)
                          /\ drains' = [drains EXCEPT ![d] =
                               [@ EXCEPT !.pc = "condition", !.current = currentEvent.n,
                                         !.taken = Append(@, currentEvent.n)]]
                     ELSE /\ UNCHANGED syncChangesInFlight
                          /\ drains' = [drains EXCEPT ![d] =
                               [@ EXCEPT !.pc = "handler", !.current = currentEvent.n,
                                         !.taken = Append(@, currentEvent.n)]]
    /\ UNCHANGED <<processNativeBookmarkEventsTimeout, debounceTimers, timerAfter, arrived, syncQueue,
                   reconciled, listenersEnabled,
                   reconVars, backgroundVars, callVars, replayVars, messageVars>>

\* syncNativeBookmarkCreated / Moved / Changed (overridden per host): after their
\* native reads they queue the change and wait for it
handlerQueuesChange(d) ==
    /\ drains[d].pc = "handler"
    /\ syncChangesInFlight' = Append(syncChangesInFlight, drains[d].current)
    /\ drains' = [drains EXCEPT ![d].pc = "awaitSync"]
    /\ UNCHANGED <<nativeBookmarkEventsQueue, processNativeBookmarkEventsTimeout, debounceTimers,
                   timerAfter,
                   arrived, syncQueue, dispatched, reconciled, listenersEnabled,
                   reconVars, backgroundVars, callVars, replayVars, messageVars>>

\* ... or they reject (a native read fails, NotFound): nothing catches the
\* rejection inside asyncWhile, so the loop's promise rejects and its then-callback
\* never runs
handlerRejects(d) ==
    /\ drains[d].pc = "handler"
    /\ drains' = [drains EXCEPT ![d] = [@ EXCEPT !.pc = "aborted", !.failed = TRUE]]
    /\ UNCHANGED <<nativeBookmarkEventsQueue, processNativeBookmarkEventsTimeout, debounceTimers,
                   timerAfter,
                   arrived, syncChangesInFlight, syncQueue, dispatched, reconciled,
                   listenersEnabled,
                   reconVars, backgroundVars, callVars, replayVars, messageVars>>

\* syncChange: the oldest platformSvc.queueSync settles; a rejection is swallowed
syncChange(ok) ==
    /\ Len(syncChangesInFlight) > 0
    /\ LET n == Head(syncChangesInFlight) IN
       /\ syncChangesInFlight' = Tail(syncChangesInFlight)
       /\ syncQueue' = IF ok THEN Append(syncQueue, n) ELSE syncQueue
       /\ reconciled' = reconciled \cup {n}
       /\ drains' = [d \in DrainIds |->
            IF drains[d].pc = "awaitSync" /\ drains[d].current = n
               THEN [drains[d] EXCEPT !.pc = "condition"]
               ELSE drains[d]]
    /\ UNCHANGED <<nativeBookmarkEventsQueue, processNativeBookmarkEventsTimeout, debounceTimers,
                   timerAfter,
                   arrived, dispatched, listenersEnabled,
                   reconVars, backgroundVars, callVars, replayVars, messageVars>>

SyncChangeSettles == \E ok \in BOOLEAN : syncChange(ok)

\* the 100ms $timeout elapses: syncEngineSvc.executeSync() is called
executeSyncStart(d) ==
    /\ drains[d].pc = "wait100"
    /\ ~ImmediatePending
    /\ drains' = [drains EXCEPT ![d] = [@ EXCEPT !.pc = "executeSync", !.syncCalls = @ + 1]]
    /\ UNCHANGED <<nativeBookmarkEventsQueue, processNativeBookmarkEventsTimeout, debounceTimers,
                   timerAfter,
                   arrived, syncChangesInFlight, syncQueue, dispatched, reconciled,
                   listenersEnabled,
                   reconVars, backgroundVars, callVars, replayVars, messageVars>>

\* executeSync settles; only its resolution continues with the reordering pass
executeSyncEnd(d, ok) ==
    /\ drains[d].pc = "executeSync"
    /\ drains' = [drains EXCEPT ![d] =
         IF ok THEN [@ EXCEPT !.pc = "disable", !.syncDone = TRUE]
               ELSE [@ EXCEPT !.pc = "done"]]
    /\ syncQueue' = IF ok THEN <<>> ELSE syncQueue
    /\ UNCHANGED <<nativeBookmarkEventsQueue, processNativeBookmarkEventsTimeout, debounceTimers,
                   timerAfter,
                   arrived, syncChangesInFlight, dispatched, reconciled, listenersEnabled,
                   reconVars, backgroundVars, callVars, replayVars, messageVars>>

ExecuteSyncSettles == \E d \in DrainIds, ok \in BOOLEAN : executeSyncEnd(d, ok)

disableEventListeners(d) ==
    /\ drains[d].pc = "disable"
    /\ listenersEnabled' = FALSE
    /\ drains' = [drains EXCEPT ![d].pc = "reorder"]
    /\ UNCHANGED <<nativeBookmarkEventsQueue, processNativeBookmarkEventsTimeout, debounceTimers,
                   timerAfter,
                   arrived, syncChangesInFlight, syncQueue, dispatched, reconciled,
                   reconVars, backgroundVars, callVars, replayVars, messageVars>>

\* reorderUnsupportedContainers settles; on rejection enableEventListeners is skipped
reorderUnsupportedContainers(d, ok) ==
    /\ drains[d].pc = "reorder"
    /\ drains' = [drains EXCEPT ![d] =
         IF ok THEN [@ EXCEPT !.pc = "enable", !.reorderDone = TRUE]
               ELSE [@ EXCEPT !.pc = "done"]]
    /\ UNCHANGED <<nativeBookmarkEventsQueue, processNativeBookmarkEventsTimeout, debounceTimers,
                   timerAfter,
                   arrived, syncChangesInFlight, syncQueue, dispatched, reconciled,
                   listenersEnabled,
                   reconVars, backgroundVars, callVars, replayVars, messageVars>>

ReorderSettles == \E d \in DrainIds, ok \in BOOLEAN : reorderUnsupportedContainers(d, ok)

enableEventListeners(d) ==
    /\ drains[d].pc = "enable"
    /\ listenersEnabled' = TRUE
    /\ drains' = [drains EXCEPT ![d] = [@ EXCEPT !.pc = "done", !.enabled = TRUE]]
    /\ UNCHANGED <<nativeBookmarkEventsQueue, processNativeBookmarkEventsTimeout, debounceTimers,
                   timerAfter,
                   arrived, syncChangesInFlight, syncQueue, dispatched, reconciled,
                   reconVars, backgroundVars, callVars, replayVars, messageVars>>

\* ====================================================================
\* Reconciliation: canonical tree, native tree, id mappings
\* ====================================================================

\* A canonical Bookmark: id, title, url ("" for a folder), children.
Bm(id, title, url, children) ==
    [id |-> id, title |-> title, url |-> url, children |-> children]

\* What find() / findBookmarkById give when nothing matches
Undefined == Bm(0, "undefined", "", <<>>)

Max(S) == CHOOSE x \in S : \A y \in S : y <= x

Min(S) == CHOOSE x \in S : \A y \in S : x <= y

\* Array.prototype.splice(index, 0, x)
Splice(seq, index, x) ==
    LET i == IF index > Len(seq) THEN Len(seq) ELSE IF index < 0 THEN 0 ELSE index
    IN  SubSeq(seq, 1, i) \o <<x>> \o SubSeq(seq, i + 1, Len(seq))

RECURSIVE eachBookmark(_)
\* bookmarkHelperSvc.eachBookmark: every node of the forest, parents first
eachBookmark(nodes) ==
    IF nodes = <<>> THEN <<>>
    ELSE <<Head(nodes)>> \o eachBookmark(Head(nodes).children) \o eachBookmark(Tail(nodes))

\* the ids met by eachBookmark, with repetitions
TreeIds(nodes) == LET e == eachBookmark(nodes) IN [i \in 1..Len(e) |-> e[i].id]

IdSet(nodes) == {TreeIds(nodes)[i] : i \in 1..Len(TreeIds(nodes))}

findBookmarkById(id, nodes) ==
    LET e == eachBookmark(nodes)
        hits == {i \in 1..Len(e) : e[i].id = id}
    IN  IF hits = {} THEN Undefined ELSE e[Min(hits)]

RECURSIVE removeBookmarkById(_, _)
\* bookmarkHelperSvc.removeBookmarkById: the forest without the node(s) of that id
removeBookmarkById(id, nodes) ==
    IF nodes = <<>> THEN <<>>
    ELSE LET h == Head(nodes) IN
         IF h.id = id THEN removeBookmarkById(id, Tail(nodes))
         ELSE <<[h EXCEPT !.children = removeBookmarkById(id, h.children)]>>
                \o removeBookmarkById(id, Tail(nodes))

\* bookmarkHelperSvc.getContainer(name, bookmarks)
getContainer(containerName, bookmarks) ==
    LET hits == {i \in 1..Len(bookmarks) : bookmarks[i].title = containerName}
    IN  IF hits = {} THEN Undefined ELSE bookmarks[Min(hits)]

\* bookmarkHelperSvc.getContainerByBookmarkId: the root folder holding the id
getContainerByBookmarkId(id, bookmarks) ==
    LET hits == {i \in 1..Len(bookmarks) : id \in IdSet(<<bookmarks[i]>>)}
    IN  IF hits = {} THEN Undefined ELSE bookmarks[Min(hits)]

\* bookmarkHelperSvc.getNewBookmarkId: one more than the highest id in use
getNewBookmarkId(bookmarks, takenIds) == Max(IdSet(bookmarks) \cup takenIds \cup {0}) + 1

\* bookmarkHelperSvc.newBookmark: a url makes a bookmark, no url a folder
newBookmark(title, url, bookmarks) == Bm(getNewBookmarkId(bookmarks, {}), title, url, <<>>)

RECURSIVE SpliceChild(_, _, _, _)
\* parent.children.splice(index, 0, bookmark) on the first node of id parentId
SpliceChild(nodes, parentId, index, bookmark) ==
    IF nodes = <<>> THEN <<>>
    ELSE LET h == Head(nodes) IN
         IF h.id = parentId
            THEN <<[h EXCEPT !.children = Splice(h.children, index, bookmark)]>> \o Tail(nodes)
         ELSE IF parentId \in IdSet(h.children)
            THEN <<[h EXCEPT !.children = SpliceChild(h.children, parentId, index, bookmark)]>>
                   \o Tail(nodes)
         ELSE <<h>> \o SpliceChild(Tail(nodes), parentId, index, bookmark)

\* addBookmark(metadata, parentId, index, bookmarks): a copy of the tree with a
\* new bookmark under parentId, or BookmarkNotFoundException
addBookmark(title, url, parentId, index, bookmarks) ==
    IF parentId \notin IdSet(bookmarks)
       THEN [ok |-> FALSE, bookmark |-> Undefined, bookmarks |-> bookmarks]
       ELSE LET bookmark == newBookmark(title, url, bookmarks)
            IN  [ok |-> TRUE, bookmark |-> bookmark,
                 bookmarks |-> SpliceChild(bookmarks, parentId, index, bookmark)]

\* ------------------------------------------------------------------ native tree
\* The host's bookmark tree: id -> [parentId, title, url, children (ids in order)].
\* The host has a toolbar root and an "other" root; the menu container has no
\* native root and lives as a folder at the front of "other".
NativeToolbarId == "nToolbar"

NativeOtherId == "nOther"

NativeMenuId == "nMenu"

NativeRootId == "nRoot"

NativeNode(parentId, title, url, children) ==
    [parentId |-> parentId, title |-> title, url |-> url, children |-> children]

\* host-assigned id of the k-th node created
NativeId(k) == "n" \o ToString(k)

\* getNativeContainerIds: container name -> native id, for the containers present
getNativeContainerIds(native) ==
    [name \in {"other", "toolbar"} \cup
              (IF NativeMenuId \in DOMAIN native /\ native[NativeMenuId].parentId = NativeOtherId
                  THEN {"menu"} ELSE {}) |->
        CASE name = "other" -> NativeOtherId
          [] name = "toolbar" -> NativeToolbarId
          [] name = "menu" -> NativeMenuId]

\* getContainerNameFromNativeId: '' when the id is no container
getContainerNameFromNativeId(nativeBookmarkId, native) ==
    LET ids == getNativeContainerIds(native)
        hits == {name \in DOMAIN ids : ids[name] = nativeBookmarkId}
    IN  IF hits = {} THEN "" ELSE CHOOSE name \in hits : TRUE

\* bookmarkHelperSvc.bookmarkIsContainer: the title is a reserved container name
bookmarkIsContainer(title) == title \in {"menu", "mobile", "other", "toolbar"}

IndexOf(seq, x) == Min({i \in 1..Len(seq) : seq[i] = x}) - 1

RemoveFrom(seq, x) == SelectSeq(seq, LAMBDA y : y # x)

RECURSIVE NativeSubtree(_, _)
\* the ids of a native node and of everything below it
NativeSubtree(native, id) ==
    LET kids == native[id].children
    IN  {id} \cup UNION {NativeSubtree(native, kids[i]) : i \in 1..Len(kids)}

\* browser.bookmarks.create
NativeCreate(native, id, parentId, index, title, url) ==
    [n \in DOMAIN native \cup {id} |->
        IF n = id THEN NativeNode(parentId, title, url, <<>>)
        ELSE IF n = parentId
             THEN [native[n] EXCEPT !.children = Splice(@, index, id)]
             ELSE native[n]]

\* browser.bookmarks.removeTree / a removal by the user
NativeRemoveTree(native, id) ==
    LET gone == NativeSubtree(native, id)
    IN  [n \in DOMAIN native \ gone |->
            IF n = native[id].parentId
               THEN [native[n] EXCEPT !.children = RemoveFrom(@, id)]
               ELSE native[n]]

\* browser.bookmarks.move: index counts in the target after the node left its place
NativeMove(native, id, parentId, index) ==
    LET out == [n \in DOMAIN native |->
                   IF n = native[id].parentId
                      THEN [native[n] EXCEPT !.children = RemoveFrom(@, id)]
                      ELSE native[n]]
    IN  [n \in DOMAIN native |->
            IF n = id THEN [out[n] EXCEPT !.parentId = parentId]
            ELSE IF n = parentId
                 THEN [out[n] EXCEPT !.children = Splice(@, index, id)]
                 ELSE out[n]]

\* countNativeContainersBeforeIndex
countNativeContainersBeforeIndex(parentId, index, native) ==
    IF parentId # getNativeContainerIds(native)["other"] THEN 0
    ELSE LET kids == native[parentId].children
         IN  Cardinality({i \in 1..Len(kids) :
                 (i - 1) < index /\ bookmarkIsContainer(native[kids[i]].title)})

\* ------------------------------------------------------------------ id mappings
\* bookmarkIdMapperSvc.createMapping
createMapping(syncedId, nativeId) == [syncedId |-> syncedId, nativeId |-> nativeId]

NoMapping == createMapping(0, "")

\* bookmarkIdMapperSvc.get(nativeId): the first mapping of that native id
getByNativeId(nativeId, mappings) ==
    LET hits == {i \in 1..Len(mappings) : mappings[i].nativeId = nativeId}
    IN  IF hits = {} THEN NoMapping ELSE mappings[Min(hits)]

\* bookmarkIdMapperSvc.get(null, syncedId): the first mapping of that synced id
getBySyncedId(syncedId, mappings) ==
    LET hits == {i \in 1..Len(mappings) : mappings[i].syncedId = syncedId}
    IN  IF hits = {} THEN NoMapping ELSE mappings[Min(hits)]

\* a table that is not written
skipMapping(mapping, mappings) == mappings

\* bookmarkIdMapperSvc.add: appends, no check for an existing entry
addMapping(mapping, mappings) == Append(mappings, mapping)

\* bookmarkIdMapperSvc.remove(syncedIds)
removeMappings(syncedIds, mappings) ==
    SelectSeq(mappings, LAMBDA m : m.syncedId \notin syncedIds)

\* ------------------------------------------------------------------ change classifier
\* A BookmarkChange built from a native event.  One record shape serves the five
\* change types; the fields a type does not carry stay at their defaults.
Change(type, id, parentId, index, title, url, oldParentId, oldIndex, childIds) ==
    [type |-> type, id |-> id, parentId |-> parentId, index |-> index, title |-> title,
     url |-> url, oldParentId |-> oldParentId, oldIndex |-> oldIndex, childIds |-> childIds]

\* What processNativeChangeOnBookmarks gives back: the replacement tree
\* ("updated"), undefined ("skipped") or a rejection ("failed"), and the id
\* mappings as they are stored when it settles.
Updated(tree, mappings) ==
    [status |-> "updated", error |-> "", bookmarks |-> tree, idMappings |-> mappings]

\* a change without a mapping rejected instead of skipped
NotFoundThrown(mappings) == [status |-> "failed", error |-> "NotFound", bookmarks |-> <<>>, idMappings |-> mappings]

\* the handler returns nothing: the change is not synced
Skipped(mappings) ==
    [status |-> "skipped", error |-> "", bookmarks |-> <<>>, idMappings |-> mappings]

\* a failure that is swallowed: the change counts as skipped
Swallowed(error, mappings) == Skipped(mappings)

Failed(error, mappings) ==
    [status |-> "failed", error |-> error, bookmarks |-> <<>>, idMappings |-> mappings]

\* checkIfBookmarkChangeShouldBeSynced: "yes", "no", or the exception raised
checkIfBookmarkChangeShouldBeSynced(changedBookmark, bookmarks, syncToolbar) ==
    IF changedBookmark = Undefined THEN "TypeError"
    ELSE LET container == getContainerByBookmarkId(changedBookmark.id, bookmarks) IN
         IF container = Undefined THEN "ContainerNotFound"
         ELSE IF container.title = "toolbar" /\ ~syncToolbar THEN "no"
         ELSE "yes"

\* wasContainerChanged (per host): the changed native node is a reserved container
wasContainerChanged(c) == bookmarkIsContainer(c.title)

\* the synced id of the new parent: the container's id, the mapped id, or 0
ResolveParent(nativeParentId, bookmarks, mappings, native) ==
    LET containerName == getContainerNameFromNativeId(nativeParentId, native) IN
    IF containerName # ""
       THEN getContainer(containerName, bookmarks).id
       ELSE getByNativeId(nativeParentId, mappings).syncedId

processChangeTypeAddOnBookmarks(bookmarks, c, mappings, native, syncToolbar) ==
    IF wasContainerChanged(c) THEN Failed("ContainerChanged", mappings)
    ELSE LET parentId == ResolveParent(c.parentId, bookmarks, mappings, native) IN
         IF parentId = 0 THEN Skipped(mappings)
         ELSE LET r == addBookmark(c.title, c.url, parentId, c.index, bookmarks) IN
              IF ~r.ok THEN Failed("BookmarkNotFound", mappings)
              ELSE LET syncThisChange ==
                           checkIfBookmarkChangeShouldBeSynced(r.bookmark, r.bookmarks, syncToolbar)
                   IN  CASE syncThisChange = "yes" ->
                              Updated(r.bookmarks,
                                      addMapping(createMapping(r.bookmark.id, c.id), mappings))
                         [] syncThisChange = "no" -> Skipped(mappings)
                         [] OTHER -> Failed(syncThisChange, mappings)

RECURSIVE modifyBookmarkById(_, _, _, _)
\* bookmarkHelperSvc.modifyBookmarkById: the tree with that bookmark's metadata replaced
modifyBookmarkById(id, title, url, nodes) ==
    IF nodes = <<>> THEN <<>>
    ELSE LET h == Head(nodes) IN
         IF h.id = id
            THEN <<[h EXCEPT !.title = title, !.url = url]>> \o Tail(nodes)
            ELSE <<[h EXCEPT !.children = modifyBookmarkById(id, title, url, h.children)]>>
                   \o modifyBookmarkById(id, title, url, Tail(nodes))

processChangeTypeModifyOnBookmarks(bookmarks, c, mappings, native, syncToolbar) ==
    IF wasContainerChanged(c) THEN Failed("ContainerChanged", mappings)
    ELSE LET idMapping == getByNativeId(c.id, mappings) IN
         IF idMapping = NoMapping THEN Skipped(mappings)
         ELSE LET bookmarkToUpdate == findBookmarkById(idMapping.syncedId, bookmarks)
                  syncThisChange ==
                      checkIfBookmarkChangeShouldBeSynced(bookmarkToUpdate, bookmarks, syncToolbar)
              IN  CASE syncThisChange = "yes" ->
                         Updated(modifyBookmarkById(idMapping.syncedId, c.title, c.url, bookmarks),
                                 mappings)
                    [] syncThisChange = "no" -> Skipped(mappings)
                    [] OTHER -> Failed(syncThisChange, mappings)

\* getIdsFromDescendants: the ids of every node below the bookmark
getIdsFromDescendants(bookmark) == IdSet(bookmark.children)

processChangeTypeRemoveOnBookmarks(bookmarks, c, mappings, native, syncToolbar) ==
    IF wasContainerChanged(c) THEN Failed("ContainerChanged", mappings)
    ELSE LET idMapping == getByNativeId(c.id, mappings) IN
         IF idMapping = NoMapping THEN Skipped(mappings)
         ELSE LET bookmarkToRemove == findBookmarkById(idMapping.syncedId, bookmarks)
                  syncThisChange ==
                      checkIfBookmarkChangeShouldBeSynced(bookmarkToRemove, bookmarks, syncToolbar)
              IN  CASE syncThisChange = "yes" ->
                         LET descendantsIds == getIdsFromDescendants(bookmarkToRemove)
                             syncedIds == descendantsIds \cup {idMapping.syncedId}
                         IN  Updated(removeBookmarkById(idMapping.syncedId, bookmarks),
                                     removeMappings(syncedIds, mappings))
                    [] syncThisChange = "no" -> Skipped(mappings)
                    [] OTHER -> Failed(syncThisChange, mappings)

\* createBookmarkFromNativeBookmarkId: browser.bookmarks.get gives the node without
\* its children; convertNativeBookmarkToBookmark gives it a new id
createBookmarkFromNativeBookmarkId(id, bookmarks, native) ==
    Bm(getNewBookmarkId(bookmarks, {}), native[id].title, native[id].url, <<>>)

\* The remove side of a move: [error, bookmarks, changesMade]
MoveRemoveSide(bookmarks, movedBookmarkMapping, bookmarkToRemove, syncToolbar) ==
    IF movedBookmarkMapping = NoMapping
       THEN [error |-> "", bookmarks |-> bookmarks, changesMade |-> FALSE]
       ELSE LET syncThisChange ==
                    checkIfBookmarkChangeShouldBeSynced(bookmarkToRemove, bookmarks, syncToolbar)
            IN  CASE syncThisChange = "yes" ->
                       [error |-> "", changesMade |-> TRUE,
                        bookmarks |-> removeBookmarkById(movedBookmarkMapping.syncedId, bookmarks)]
                  [] syncThisChange = "no" ->
                       [error |-> "", bookmarks |-> bookmarks, changesMade |-> FALSE]
                  [] OTHER ->
                       [error |-> syncThisChange, bookmarks |-> bookmarks, changesMade |-> FALSE]

\* The add side of a move, given the tree after the remove side
MoveAddSide(removed, c, movedBookmarkMapping, parentSyncedId, bookmarkToRemove, mappings, native, syncToolbar) ==
    IF parentSyncedId = 0
       THEN IF removed.changesMade THEN Updated(removed.bookmarks, mappings)
                                   ELSE Skipped(mappings)
       ELSE LET numContainers == countNativeContainersBeforeIndex(c.parentId, c.index, native)
                index == c.index - numContainers
                r == addBookmark(bookmarkToRemove.title, bookmarkToRemove.url,
                                 parentSyncedId, index, removed.bookmarks)
                added == [r.bookmark EXCEPT !.id = bookmarkToRemove.id]
                tree == SpliceChild(removed.bookmarks, parentSyncedId, index, added)
                syncThisChange == checkIfBookmarkChangeShouldBeSynced(added, tree, syncToolbar)
            IN  IF ~r.ok THEN Failed("BookmarkNotFound", mappings)
                ELSE CASE syncThisChange = "yes" ->
                            Updated(tree,
                                    IF movedBookmarkMapping # NoMapping THEN mappings
                                    ELSE addMapping(createMapping(added.id, c.id), mappings))
                       [] syncThisChange = "no" ->
                            IF removed.changesMade THEN Updated(removed.bookmarks, mappings)
                                                   ELSE Skipped(mappings)
                       [] OTHER -> Failed(syncThisChange, mappings)

processChangeTypeMoveOnBookmarks(bookmarks, c, mappings, native, syncToolbar) ==
    IF c.id \notin DOMAIN native THEN Failed("NativeBookmarkNotFound", mappings)
    ELSE IF bookmarkIsContainer(native[c.id].title)
       THEN IF c.oldParentId # c.parentId THEN Failed("ContainerChanged", mappings)
                                          ELSE Skipped(mappings)
    ELSE LET movedBookmarkMapping == getByNativeId(c.id, mappings)
             parentSyncedId == ResolveParent(c.parentId, bookmarks, mappings, native)
         IN  IF movedBookmarkMapping = NoMapping /\ parentSyncedId = 0 THEN Skipped(mappings)
             ELSE LET bookmarkToRemove ==
                          IF movedBookmarkMapping = NoMapping
                             THEN createBookmarkFromNativeBookmarkId(c.id, bookmarks, native)
                             ELSE findBookmarkById(movedBookmarkMapping.syncedId, bookmarks)
                      removed == MoveRemoveSide(bookmarks, movedBookmarkMapping,
                                                bookmarkToRemove, syncToolbar)
                  IN  IF removed.error # "" THEN Failed(removed.error, mappings)
                      ELSE MoveAddSide(removed, c, movedBookmarkMapping, parentSyncedId,
                                       bookmarkToRemove, mappings, native, syncToolbar)

RECURSIVE ReplaceChildren(_, _, _)
\* parentBookmark.children = ... on the first node of that id
ReplaceChildren(nodes, id, children) ==
    IF nodes = <<>> THEN <<>>
    ELSE LET h == Head(nodes) IN
         IF h.id = id THEN <<[h EXCEPT !.children = children]>> \o Tail(nodes)
         ELSE IF id \in IdSet(h.children)
            THEN <<[h EXCEPT !.children = ReplaceChildren(h.children, id, children)]>>
                   \o Tail(nodes)
         ELSE <<h>> \o ReplaceChildren(Tail(nodes), id, children)

processChangeTypeChildrenReorderedOnBookmarks(bookmarks, c, mappings, native, syncToolbar) ==
    LET containerName == getContainerNameFromNativeId(c.parentId, native)
        parentMapping == getByNativeId(c.parentId, mappings)
        parentBookmark ==
            IF containerName # "" THEN getContainer(containerName, bookmarks)
            ELSE IF parentMapping = NoMapping THEN Undefined
            ELSE findBookmarkById(parentMapping.syncedId, bookmarks)
        idMappings == SelectSeq([i \in 1..Len(c.childIds) |-> getByNativeId(c.childIds[i], mappings)],
                                LAMBDA m : m # NoMapping)
        children == [i \in 1..Len(idMappings) |->
                        LET hits == {k \in 1..Len(parentBookmark.children) :
                                        parentBookmark.children[k].id = idMappings[i].syncedId}
                        IN  IF hits = {} THEN Undefined ELSE parentBookmark.children[Min(hits)]]
    IN  IF parentBookmark = Undefined THEN Failed("TypeError", mappings)
        ELSE Updated(ReplaceChildren(bookmarks, parentBookmark.id, children), mappings)

processNativeChangeOnBookmarks(c, bookmarks, mappings, native, syncToolbar) ==
    CASE c.type = "Add" ->
           processChangeTypeAddOnBookmarks(bookmarks, c, mappings, native, syncToolbar)
      [] c.type = "ChildrenReordered" ->
           processChangeTypeChildrenReorderedOnBookmarks(bookmarks, c, mappings, native, syncToolbar)
      [] c.type = "Modify" ->
           processChangeTypeModifyOnBookmarks(bookmarks, c, mappings, native, syncToolbar)
      [] c.type = "Move" ->
           processChangeTypeMoveOnBookmarks(bookmarks, c, mappings, native, syncToolbar)
      [] c.type = "Remove" ->
           processChangeTypeRemoveOnBookmarks(bookmarks, c, mappings, native, syncToolbar)
      [] OTHER -> Failed("AmbiguousSyncRequest", mappings)

\* ------------------------------------------------------------------ reconciliation state
NoCommit == [pending |-> FALSE, bookmarks |-> <<>>]

NoChange == Change("none", "", "", 0, "", "", "", 0, <<>>)

\* nothing processed in the step that led here
NoLast == [change |-> NoChange, status |-> "none", error |-> ""]

\* buildIdMappings maps the children of the toolbar only when the toolbar is
\* synced: with the setting off the canonical toolbar may hold bookmarks of other
\* devices that have no native twin and no mapping
UnmappedToolbarChildren(syncToolbar) ==
    IF syncToolbar THEN {<<>>} ELSE {<<>>, <<Bm(4, "t", "u", <<>>)>>}

\* getContainer(name, bookmarks, true) appends a container that is missing, so
\* the order of the containers in the canonical tree follows their creation
ContainerOrders(toolbarChildren) ==
    {<<Bm(1, "menu", "", <<>>), Bm(2, "other", "", <<>>), Bm(3, "toolbar", "", toolbarChildren)>>,
     <<Bm(1, "menu", "", <<>>), Bm(3, "toolbar", "", toolbarChildren), Bm(2, "other", "", <<>>)>>}

InitRecon ==
    /\ nativeTree = [n \in {NativeOtherId, NativeToolbarId, NativeMenuId} |->
         CASE n = NativeOtherId -> NativeNode(NativeRootId, "other", "", <<NativeMenuId>>)
           [] n = NativeToolbarId -> NativeNode(NativeRootId, "toolbar", "", <<>>)
           [] n = NativeMenuId -> NativeNode(NativeOtherId, "menu", "", <<>>)]
    /\ nativeCreated = 0
    /\ syncBookmarksToolbar \in BOOLEAN
    /\ \E toolbarChildren \in UnmappedToolbarChildren(syncBookmarksToolbar) :
          syncedBookmarks \in ContainerOrders(toolbarChildren)
    /\ bookmarkIdMappings = <<>>
    /\ queuedChanges = <<>>
    /\ pendingCommit = NoCommit
    /\ steps = 0
    /\ last = NoLast

\* native nodes the user edits: everything but the roots and the container folders
UserNodes == {n \in DOMAIN nativeTree :
                 n \notin {NativeOtherId, NativeToolbarId} /\ ~bookmarkIsContainer(nativeTree[n].title)}

\* native nodes below the roots that carry the title of a reserved container
ContainerNodes == {n \in DOMAIN nativeTree :
                      n \notin {NativeOtherId, NativeToolbarId} /\ bookmarkIsContainer(nativeTree[n].title)}

NativeFolders == {n \in DOMAIN nativeTree : nativeTree[n].url = ""}

\* one more step of the environment, while the bound allows
Step == steps < MaxSteps /\ steps' = steps + 1

\* The engine works on one change at a time: an edit made while a replacement tree
\* waits for its caller is processed after that tree is settled, so the edit is
\* taken here once it is.
CanQueue == Len(queuedChanges) < MaxPending /\ ~pendingCommit.pending

\* syncChange: the change reaches the sync engine's queue
QueueChange(c) == queuedChanges' = Append(queuedChanges, c)

\* The user creates a bookmark or folder: onCreated(id, node)
UserCreate(parentId, index, url) ==
    /\ CanQueue
    /\ nativeCreated < MaxNative
    /\ LET id == NativeId(nativeCreated + 1) IN
       /\ nativeTree' = NativeCreate(nativeTree, id, parentId, index, "a", url)
       /\ QueueChange(Change("Add", id, parentId, index, "a", url, "", 0, <<>>))
    /\ nativeCreated' = nativeCreated + 1
    /\ UNCHANGED <<syncedBookmarks, bookmarkIdMappings, syncBookmarksToolbar, pendingCommit>>
    /\ Step
    /\ last' = NoLast

\* The user creates a folder that carries the title of a reserved container
UserCreateContainer(parentId) ==
    /\ CanQueue
    /\ nativeCreated < MaxNative
    /\ LET id == NativeId(nativeCreated + 1)
           index == Len(nativeTree[parentId].children)
       IN  /\ nativeTree' = NativeCreate(nativeTree, id, parentId, index, "mobile", "")
           /\ QueueChange(Change("Add", id, parentId, index, "mobile", "", "", 0, <<>>))
    /\ nativeCreated' = nativeCreated + 1
    /\ UNCHANGED <<syncedBookmarks, bookmarkIdMappings, syncBookmarksToolbar, pendingCommit>>
    /\ Step
    /\ last' = NoLast

\* The user gives a node the title of a reserved container: onChanged(id, changeInfo)
UserRenameToContainer(id) ==
    /\ CanQueue
    /\ nativeTree' = [nativeTree EXCEPT ![id].title = "mobile"]
    /\ QueueChange(Change("Modify", id, nativeTree[id].parentId,
                          IndexOf(nativeTree[nativeTree[id].parentId].children, id),
                          "mobile", nativeTree[id].url, "", 0, <<>>))
    /\ UNCHANGED <<nativeCreated, syncedBookmarks, bookmarkIdMappings, syncBookmarksToolbar, pendingCommit>>
    /\ Step
    /\ last' = NoLast

\* The user deletes a node with its subtree: onRemoved(id, removeInfo)
UserRemove(id) ==
    /\ CanQueue
    /\ nativeTree' = NativeRemoveTree(nativeTree, id)
    /\ QueueChange(Change("Remove", id, nativeTree[id].parentId,
                          IndexOf(nativeTree[nativeTree[id].parentId].children, id),
                          nativeTree[id].title, nativeTree[id].url, "", 0, <<>>))
    /\ UNCHANGED <<nativeCreated, syncedBookmarks, bookmarkIdMappings, syncBookmarksToolbar, pendingCommit>>
    /\ Step
    /\ last' = NoLast

\* The user moves a node: onMoved(id, moveInfo)
UserMove(id, parentId, index) ==
    /\ CanQueue
    /\ parentId \notin NativeSubtree(nativeTree, id)
    /\ LET oldParentId == nativeTree[id].parentId
           oldIndex == IndexOf(nativeTree[oldParentId].children, id)
       IN  /\ index <= Len(RemoveFrom(nativeTree[parentId].children, id))
           /\ ~(parentId = oldParentId /\ index = oldIndex)
           /\ nativeTree' = NativeMove(nativeTree, id, parentId, index)
           /\ QueueChange(Change("Move", id, parentId, index, "", "", oldParentId, oldIndex, <<>>))
    /\ UNCHANGED <<nativeCreated, syncedBookmarks, bookmarkIdMappings, syncBookmarksToolbar, pendingCommit>>
    /\ Step
    /\ last' = NoLast

\* The user renames a node: onChanged(id, changeInfo)
UserChange(id) ==
    /\ CanQueue
    /\ LET title == IF nativeTree[id].title = "a" THEN "b" ELSE "a" IN
       /\ nativeTree' = [nativeTree EXCEPT ![id].title = title]
       /\ QueueChange(Change("Modify", id, nativeTree[id].parentId,
                             IndexOf(nativeTree[nativeTree[id].parentId].children, id),
                             title, nativeTree[id].url, "", 0, <<>>))
    /\ UNCHANGED <<nativeCreated, syncedBookmarks, bookmarkIdMappings, syncBookmarksToolbar, pendingCommit>>
    /\ Step
    /\ last' = NoLast

Orderings(seq) ==
    {p \in [1..Len(seq) -> {seq[i] : i \in 1..Len(seq)}] :
        \A i, j \in 1..Len(seq) : (i # j) => (p[i] # p[j])}

\* The user sorts a folder: onChildrenReordered(id, reorderInfo)
UserReorder(parentId, childIds) ==
    /\ CanQueue
    /\ childIds # nativeTree[parentId].children
    /\ nativeTree' = [nativeTree EXCEPT ![parentId].children = childIds]
    /\ QueueChange(Change("ChildrenReordered", "", parentId, 0, "", "", "", 0, childIds))
    /\ UNCHANGED <<nativeCreated, syncedBookmarks, bookmarkIdMappings, syncBookmarksToolbar, pendingCommit>>
    /\ Step
    /\ last' = NoLast

\* The user switches the "sync toolbar" setting
SetSyncBookmarksToolbar ==
    /\ Step
    /\ syncBookmarksToolbar' = ~syncBookmarksToolbar
    /\ UNCHANGED <<nativeTree, nativeCreated, syncedBookmarks, bookmarkIdMappings, queuedChanges,
                   pendingCommit>>
    /\ last' = NoLast

\* The sync engine takes the oldest queued change and runs
\* processNativeChangeOnBookmarks on the adopted tree.  The id mappings are stored
\* by the time it settles; the tree it returns waits for the caller to adopt it.
ProcessChange ==
    /\ ~pendingCommit.pending
    /\ Len(queuedChanges) > 0
    /\ LET c == Head(queuedChanges)
           r == processNativeChangeOnBookmarks(c, syncedBookmarks, bookmarkIdMappings, nativeTree,
                                               syncBookmarksToolbar)
       IN  /\ bookmarkIdMappings' = r.idMappings
           /\ pendingCommit' = IF r.status = "updated"
                                  THEN [pending |-> TRUE, bookmarks |-> r.bookmarks]
                                  ELSE NoCommit
           /\ last' = [change |-> c, status |-> r.status, error |-> r.error]
    /\ queuedChanges' = Tail(queuedChanges)
    /\ UNCHANGED <<nativeTree, nativeCreated, syncedBookmarks, syncBookmarksToolbar, steps>>

\* The caller adopts the replacement tree (the sync succeeded) or drops it (the
\* sync failed)
Commit(ok) ==
    /\ pendingCommit.pending
    /\ IF ok THEN UNCHANGED steps ELSE Step
    /\ syncedBookmarks' = IF ok THEN pendingCommit.bookmarks ELSE syncedBookmarks
    /\ pendingCommit' = NoCommit
    /\ UNCHANGED <<nativeTree, nativeCreated, bookmarkIdMappings, syncBookmarksToolbar, queuedChanges>>
    /\ last' = NoLast

\* The sync engine runs one sync at a time, so a remote change is replayed while no
\* local change is queued or waiting for its caller.
\* A change made through the sync engine (a remote or in-app addition) replayed on
\* the native tree by processChangeTypeAddOnNativeBookmarks: the bookmark is
\* already in the canonical tree, its native twin is created in "other"
RemoteAdd ==
    /\ ~pendingCommit.pending
    /\ queuedChanges = <<>>
    /\ nativeCreated < MaxNative
    /\ LET id == getNewBookmarkId(syncedBookmarks, {})
           otherBookmarksId == getNativeContainerIds(nativeTree)["other"]
           nativeId == NativeId(nativeCreated + 1)
           other == getContainer("other", syncedBookmarks)
       IN  /\ syncedBookmarks' = SpliceChild(syncedBookmarks, other.id, Len(other.children),
                                             Bm(id, "a", "u", <<>>))
           /\ nativeTree' = NativeCreate(nativeTree, nativeId, otherBookmarksId,
                                         Len(nativeTree[otherBookmarksId].children), "a", "u")
           /\ bookmarkIdMappings' = addMapping(createMapping(id, nativeId), bookmarkIdMappings)
    /\ nativeCreated' = nativeCreated + 1
    /\ Step
    /\ UNCHANGED <<syncBookmarksToolbar, queuedChanges, pendingCommit>>
    /\ last' = NoLast

\* processChangeTypeRemoveOnNativeBookmarks(id) after the canonical removal
processChangeTypeRemoveOnNativeBookmarks(id) ==
    LET idMapping == getBySyncedId(id, bookmarkIdMappings) IN
    IF idMapping = NoMapping
       THEN UNCHANGED <<nativeTree, bookmarkIdMappings>>
    ELSE IF idMapping.nativeId \notin DOMAIN nativeTree
       THEN \* removeTree fails: FailedRemoveNativeBookmarksException
            UNCHANGED <<nativeTree, bookmarkIdMappings>>
    ELSE /\ nativeTree' = NativeRemoveTree(nativeTree, idMapping.nativeId)
         /\ bookmarkIdMappings' = removeMappings({id}, bookmarkIdMappings)

RemoteRemove(id) ==
    /\ ~pendingCommit.pending
    /\ queuedChanges = <<>>
    /\ syncedBookmarks' = removeBookmarkById(id, syncedBookmarks)
    /\ processChangeTypeRemoveOnNativeBookmarks(id)
    /\ Step
    /\ UNCHANGED <<nativeCreated, syncBookmarksToolbar, queuedChanges, pendingCommit>>
    /\ last' = NoLast

\* ids of the canonical nodes below the containers
NonContainerIds(tree) == IdSet(tree) \ ({tree[i].id : i \in 1..Len(tree)} \cup {0})

\* ====================================================================
\* Listener registration: syncBookmarks, toggleEventListeners and
\* convertLocalBookmarkToSeparator of background.js, and
\* convertNativeBookmarkToSeparator of the service
\* ====================================================================

Hosts == {"chrome", "webext"}

SyncIds == 1..MaxSyncs

ConversionIds == 1..MaxConversions

\* SyncType values a call of syncBookmarks carries
SyncTypes == {"Push", "Pull", "Both"}

\* A call of syncBookmarks: syncData.type, where the promise chain stands, the
\* flag toggleEventListeners read, the failed sync this one refreshes for, the
\* conversion syncData.changeInfo waits for, whether the listeners were disabled,
\* whether syncData.changeInfo is a rejected promise, whether the response sent
\* was success: false
IdleSync == [type |-> "none", pc |-> "idle", syncEnabled |-> FALSE, parent |-> 0,
             changeInfo |-> 0, disabled |-> FALSE, rejected |-> FALSE, failed |-> FALSE]

\* A separator conversion: where its promise chain stands, whether disabling
\* was tried, whether it succeeded, whether a native write was issued, whether
\* the cleanup ran
IdleConversion == [pc |-> "idle", tried |-> FALSE, disabled |-> FALSE, wrote |-> FALSE,
                   cleanup |-> FALSE]

InitBackground ==
    /\ registered = TRUE
    /\ syncEnabled = TRUE
    /\ syncs = [s \in SyncIds |-> IdleSync]
    /\ conversions = [c \in ConversionIds |-> IdleConversion]
    /\ messages = 0

\* disableEventListeners of background.js: removeListener four times in a try;
\* a throw leaves the registration as it was and answers success: false
removeListeners(ok, reg) == IF ok THEN FALSE ELSE reg

\* enableEventListeners of background.js: disableEventListeners, then
\* addListener four times; a failed disable skips the addListener calls
addListeners(ok, reg) == IF ok THEN TRUE ELSE reg

\* toggleEventListeners once the flag is known: enable when it is true,
\* disable otherwise
toggleEventListeners(enable, ok, reg) ==
    IF enable THEN addListeners(ok, reg) ELSE removeListeners(ok, reg)

FreeSync(s) ==
    /\ syncs[s].pc = "idle"
    /\ \A o \in SyncIds : (o < s) => syncs[o].pc # "idle"

FreeConversion(c) ==
    /\ conversions[c].pc = "idle"
    /\ \A o \in ConversionIds : (o < c) => conversions[o].pc # "idle"

\* syncBookmarks(syncData): a Pull or Both sync first disables the listeners,
\* a Push sync goes straight to bookmarks.Sync
syncBookmarks(all, s, type, changeInfo, parent) ==
    [all EXCEPT ![s] = [IdleSync EXCEPT
        !.type = type, !.changeInfo = changeInfo, !.parent = parent,
        !.pc = IF type \in {"Pull", "Both"} THEN "toggleOff" ELSE "Sync"]]

\* onMessageHandler, Commands.SyncBookmarks (also getLatestUpdates, restoreBookmarks)
SyncBookmarksMessage(s, type) ==
    /\ host = "chrome"
    /\ FreeSync(s)
    /\ syncs' = syncBookmarks(syncs, s, type, 0, 0)
    /\ UNCHANGED <<host, registered, syncEnabled, conversions, messages>>

\* onCreatedHandler / onChangedHandler for a separator: createBookmark starts
\* the conversion inside prepareToSyncChanges and calls syncBookmarks(Push)
\* with that promise as changeInfo
createBookmark(c, s) ==
    /\ host = "chrome"
    /\ registered
    /\ FreeConversion(c)
    /\ FreeSync(s)
    /\ conversions' = [conversions EXCEPT ![c].pc = "convert"]
    /\ syncs' = syncBookmarks(syncs, s, "Push", c, 0)
    /\ UNCHANGED <<host, registered, syncEnabled, messages>>

\* onCreatedHandler for a bookmark GetLocalBookmarkLocationInfo resolves nothing
\* for: the first continuation returns without setting locationInfo, the second
\* reads locationInfo.container and throws a TypeError, so the changeInfo given
\* to syncBookmarks(Push) is a rejected promise
createBookmarkNotLocated(s) ==
    /\ host = "chrome"
    /\ registered
    /\ FreeSync(s)
    /\ syncs' = [syncBookmarks(syncs, s, "Push", 0, 0) EXCEPT ![s].rejected = TRUE]
    /\ UNCHANGED <<host, registered, syncEnabled, conversions, messages>>

\* syncBookmarks: toggleEventListeners(false); a rejection skips bookmarks.Sync
toggleOff(s, ok) ==
    /\ syncs[s].pc = "toggleOff"
    /\ registered' = toggleEventListeners(FALSE, ok, registered)
    /\ syncs' = [syncs EXCEPT ![s] =
         IF ok THEN [@ EXCEPT !.pc = "Sync", !.disabled = TRUE]
               ELSE [@ EXCEPT !.pc = "toggle", !.failed = TRUE]]
    /\ UNCHANGED <<host, syncEnabled, conversions, messages>>

\* syncData.changeInfo, when it is a promise, has to settle before the sync does
ChangeInfoSettled(s) ==
    IF syncs[s].changeInfo = 0 THEN TRUE ELSE conversions[syncs[s].changeInfo].pc = "done"

\* bookmarks.Sync settles without a refresh and the response is sent; a sync
\* whose changeInfo promise is rejected cannot resolve
SyncSettles(s, ok) ==
    /\ syncs[s].pc = "Sync"
    /\ ChangeInfoSettled(s)
    /\ syncs[s].rejected => ~ok
    /\ syncs' = [syncs EXCEPT ![s] = [@ EXCEPT !.pc = "toggle", !.failed = ~ok]]
    /\ UNCHANGED <<host, registered, syncEnabled, conversions, messages>>

\* bookmarks.Sync rejects and CheckIfRefreshSyncedDataOnError holds:
\* refreshLocalSyncData calls syncBookmarks({type: Pull})
refreshLocalSyncData(s, r) ==
    /\ syncs[s].pc = "Sync"
    /\ ChangeInfoSettled(s)
    /\ FreeSync(r)
    /\ syncs' = [syncBookmarks(syncs, r, "Pull", 0, s) EXCEPT ![s].pc = "refresh"]
    /\ UNCHANGED <<host, registered, syncEnabled, conversions, messages>>

\* the refresh sync is over: the error is thrown on and the response is sent
RefreshSettles(s) ==
    /\ syncs[s].pc = "refresh"
    /\ \E r \in SyncIds : syncs[r].parent = s /\ syncs[r].pc = "done"
    /\ syncs' = [syncs EXCEPT ![s] = [@ EXCEPT !.pc = "toggle", !.failed = TRUE]]
    /\ UNCHANGED <<host, registered, syncEnabled, conversions, messages>>

\* .finally(toggleEventListeners): called without argument, it reads the flag
toggleRead(s) ==
    /\ syncs[s].pc = "toggle"
    /\ syncs' = [syncs EXCEPT ![s] = [@ EXCEPT !.pc = "apply", !.syncEnabled = syncEnabled]]
    /\ UNCHANGED <<host, registered, syncEnabled, conversions, messages>>

\* ... and enables or disables the listeners according to the flag it read
toggleApply(s, ok) ==
    /\ syncs[s].pc = "apply"
    /\ registered' = toggleEventListeners(syncs[s].syncEnabled, ok, registered)
    /\ syncs' = [syncs EXCEPT ![s].pc = "done"]
    /\ UNCHANGED <<host, syncEnabled, conversions, messages>>

\* convertNativeBookmarkToSeparator, called for a native event: a node that is
\* already the right separator is returned as it is
convertNativeBookmarkToSeparator(c, skip) ==
    /\ host = "webext"
    /\ registered
    /\ FreeConversion(c)
    /\ conversions' = [conversions EXCEPT ![c].pc = IF skip THEN "done" ELSE "convert"]
    /\ UNCHANGED <<host, registered, syncEnabled, syncs, messages>>

\* convertLocalBookmarkToSeparator: toggleEventListeners(false);
\* convertNativeBookmarkToSeparator: this.disableEventListeners()
convertLocalBookmarkToSeparator(c, ok) ==
    /\ conversions[c].pc = "convert"
    /\ registered' = toggleEventListeners(FALSE, ok, registered)
    /\ conversions' = [conversions EXCEPT ![c] =
         IF ok THEN [@ EXCEPT !.pc = "write", !.tried = TRUE, !.disabled = TRUE]
               ELSE [@ EXCEPT !.pc = "finally", !.tried = TRUE]]
    /\ UNCHANGED <<host, syncEnabled, syncs, messages>>

WriteOutcomes == {"written", "failed", "threw", "rejected"}

\* the native write: remove then create (or update) goes through; or it fails
\* ("failed": the promise of the service rejects; "threw": the try of
\* background.js catches); or LocalBookmarkInToolbar rejects before any write
separatorWrite(c, outcome) ==
    /\ conversions[c].pc = "write"
    /\ outcome = "failed" => host = "webext"
    /\ outcome \in {"threw", "rejected"} => host = "chrome"
    /\ conversions' = [conversions EXCEPT ![c] =
         [@ EXCEPT !.pc = IF outcome = "threw" THEN "catch" ELSE "finally",
                   !.wrote = (outcome # "rejected")]]
    /\ UNCHANGED <<host, registered, syncEnabled, syncs, messages>>

\* catch (err) of convertLocalBookmarkToSeparator: toggleEventListeners(true),
\* then reject(err)
separatorCatch(c, ok) ==
    /\ conversions[c].pc = "catch"
    /\ registered' = toggleEventListeners(TRUE, ok, registered)
    /\ conversions' = [conversions EXCEPT ![c].pc = "finally"]
    /\ UNCHANGED <<host, syncEnabled, syncs, messages>>

\* enableEventListeners of the service is implemented by its subclasses: the
\* listeners are registered again when sync is still enabled
enableNativeListeners(ok, flag, reg) == IF ok THEN flag ELSE reg

\* the cleanup attached with .then: a conversion whose disabling failed ends
\* without it
separatorThen(c, ok) ==
    /\ conversions[c].pc = "finally"
    /\ registered' = IF conversions[c].disabled
                        THEN toggleEventListeners(TRUE, ok, registered)
                        ELSE registered
    /\ conversions' = [conversions EXCEPT ![c] =
         [@ EXCEPT !.pc = "done", !.cleanup = conversions[c].disabled]]
    /\ UNCHANGED <<host, syncEnabled, syncs, messages>>

\* .finally of the conversion: toggleEventListeners(true) in background.js,
\* this.enableEventListeners in the service
separatorFinally(c, ok) ==
    /\ conversions[c].pc = "finally"
    /\ registered' = IF host = "chrome"
                        THEN toggleEventListeners(TRUE, ok, registered)
                        ELSE enableNativeListeners(ok, syncEnabled, registered)
    /\ conversions' = [conversions EXCEPT ![c] = [@ EXCEPT !.pc = "done", !.cleanup = TRUE]]
    /\ UNCHANGED <<host, syncEnabled, syncs, messages>>

\* onMessageHandler, Commands.EnableEventListeners
EnableEventListenersMessage(ok) ==
    /\ host = "chrome"
    /\ messages < MaxMessages
    /\ messages' = messages + 1
    /\ registered' = addListeners(ok, registered)
    /\ UNCHANGED <<host, syncEnabled, syncs, conversions>>

\* onMessageHandler, Commands.DisableEventListeners
DisableEventListenersMessage(ok) ==
    /\ host = "chrome"
    /\ messages < MaxMessages
    /\ messages' = messages + 1
    /\ registered' = removeListeners(ok, registered)
    /\ UNCHANGED <<host, syncEnabled, syncs, conversions>>

\* the user enables or disables sync: the persisted flag changes
SetSyncEnabled ==
    /\ messages < MaxMessages
    /\ messages' = messages + 1
    /\ syncEnabled' = ~syncEnabled
    /\ UNCHANGED <<host, registered, syncs, conversions>>

\* ====================================================================
\* Calls of the tree mutators on their own
\* ====================================================================
NoReturn == [status |-> "none", error |-> "", parentId |-> 0, index |-> 0,
             bookmark |-> Undefined, bookmarks |-> <<>>]

\* No conversion yet.  A conversion: how its promise settled, the id of the node
\* it was given, the native write it chose, the id of the node it resolved with
NoSeparator == [status |-> "none", input |-> "", write |-> "none", node |-> ""]

\* No call of createNativeBookmarkTree yet.  A call: the bookmarks to create; the
\* calls of createRecursive (native parent, bookmarks left, where the chain
\* stands); the callbacks scheduled, oldest first; the levels that have a
\* browser.bookmarks.create in flight; the ids in the order their creation began
\* and in the order it ended; processError
NoCreation == [bookmarks |-> <<>>, levels |-> <<>>, ready |-> <<>>, requests |-> {},
               begun |-> <<>>, created |-> <<>>, processError |-> FALSE]

\* No call of reorderUnsupportedContainers yet.  A call: the titles in
\* unsupportedContainers; where the call stands; the nodes the searches found,
\* falsy results removed; the browser.bookmarks.move calls issued and not yet in
\* effect; whether the moves so far took effect in the order they were issued
NoReordering == [unsupportedContainers |-> <<>>, pc |-> "idle", results |-> <<>>,
                 moves |-> {}, inIssueOrder |-> TRUE]

\* No change replayed yet.  A replay: the change type, the synced id and the
\* metadata it carries; where the call stands; the calls made to the host, in
\* order; how the promise settled, with the exception and its cause
NoReplay == [type |-> "none", id |-> 0, title |-> "", url |-> "", pc |-> "idle",
             hostCalls |-> <<>>, status |-> "none", error |-> "", cause |-> ""]

\* No message yet.  A message: its command and the sync type it carries; where
\* its handling stands; the refresh pulls nested in its call of syncBookmarks
\* that have not returned; the reason the promise chain of the innermost call is
\* rejected with; the error its own bookmarks.Sync rejected with; whether its own
\* bookmarks.Sync resolved; whether refreshLocalSyncData was run for it; the
\* calls of its sendResponse, in order
NoMessage == [command |-> "none", type |-> "none", pc |-> "idle", refreshes |-> 0,
              rejection |-> "", original |-> "", syncResolved |-> FALSE,
              refreshed |-> FALSE, responses |-> <<>>]

InitCalls ==
    /\ passedIn = <<Bm(1, "menu", "", <<>>), Bm(2, "other", "", <<>>), Bm(3, "toolbar", "", <<>>)>>
    /\ returned = NoReturn
    /\ calls = 0
    /\ separator = NoSeparator
    /\ creation = NoCreation
    /\ reordering = NoReordering
    /\ replay = NoReplay
    /\ handling = NoMessage

\* an addBookmark that splices into the array it was given
spliceInPlace(title, url, parentId, index, bookmarks) == SpliceChild(bookmarks, parentId, index, newBookmark(title, url, bookmarks))

\* The array the caller passed to addBookmark, as the caller finds it after the
\* call: the lookup of the parent and the splice act on angular.copy(bookmarks)
passedInAfterAddBookmark(title, url, parentId, index, bookmarks) == bookmarks

\* ids a caller may name as parent: those of the tree and two that are not in it
ParentIds(tree) == IdSet(tree) \cup {0, getNewBookmarkId(tree, {})}

\* A caller calls addBookmark(metadata, parentId, index, bookmarks) on the tree it
\* holds; the exception addBookmark throws is BookmarkNotFoundException
AddBookmarkCall(url, parentId, index) ==
    /\ calls < MaxCalls
    /\ returned.status # "returned"
    /\ calls' = calls + 1
    /\ LET r == addBookmark("a", url, parentId, index, passedIn) IN
       returned' = [status |-> IF r.ok THEN "returned" ELSE "thrown",
                    error |-> IF r.ok THEN "" ELSE "BookmarkNotFound",
                    parentId |-> parentId, index |-> index,
                    bookmark |-> r.bookmark,
                    bookmarks |-> IF r.ok THEN r.bookmarks ELSE <<>>]
    /\ passedIn' = passedInAfterAddBookmark("a", url, parentId, index, passedIn)
    /\ UNCHANGED <<separator, creation, reordering>>

\* The caller goes on with the replacement tree
AdoptReturned ==
    /\ returned.status = "returned"
    /\ passedIn' = returned.bookmarks
    /\ returned' = NoReturn
    /\ UNCHANGED <<calls, separator, creation, reordering>>

NextAddBookmark ==
    \/ \E url \in {"", "u"}, parentId \in ParentIds(passedIn), index \in 0..2 :
          AddBookmarkCall(url, parentId, index)
             /\ UNCHANGED <<drainVars, reconVars, backgroundVars, replayVars, messageVars>>
    \/ AdoptReturned /\ UNCHANGED <<drainVars, reconVars, backgroundVars, replayVars, messageVars>>

InitAll == InitDrain /\ InitRecon /\ InitBackground /\ InitCalls /\ host = "chrome"

NextDrain ==
    \/ NativeEvent
    \/ DebounceElapsed
    \/ \E d \in DrainIds : asyncWhileCondition(d)
    \/ \E d \in DrainIds : action(d)
    \/ \E d \in DrainIds : handlerQueuesChange(d)
    \/ \E d \in DrainIds : handlerRejects(d)
    \/ SyncChangeSettles
    \/ \E d \in DrainIds : executeSyncStart(d)
    \/ ExecuteSyncSettles
    \/ \E d \in DrainIds : disableEventListeners(d)
    \/ ReorderSettles
    \/ \E d \in DrainIds : enableEventListeners(d)

SpecDrain == InitAll /\ [][NextDrain]_vars

\* $timeout callbacks and promise continuations that are due do run; that a
\* native event arrives is up to the user.  A handler that was called settles,
\* one way or the other.
FairDrain ==
    /\ WF_vars(DebounceElapsed)
    /\ \A d \in DrainIds :
          /\ WF_vars(asyncWhileCondition(d))
          /\ WF_vars(action(d))
          /\ WF_vars(handlerQueuesChange(d) \/ handlerRejects(d))
          /\ WF_vars(executeSyncStart(d))
          /\ WF_vars(disableEventListeners(d))
          /\ WF_vars(enableEventListeners(d))
    /\ WF_vars(SyncChangeSettles)
    /\ WF_vars(ExecuteSyncSettles)
    /\ WF_vars(ReorderSettles)

SpecDrainFair == InitAll /\ [][NextDrain]_vars /\ FairDrain
NextRecon ==
    \/ \E parentId \in NativeFolders, url \in {"", "u"} :
          \E index \in 0..Len(nativeTree[parentId].children) :
             UserCreate(parentId, index, url) /\ UNCHANGED <<drainVars, backgroundVars, callVars, replayVars, messageVars>>
    \/ \E parentId \in NativeFolders :
          UserCreateContainer(parentId) /\ UNCHANGED <<drainVars, backgroundVars, callVars, replayVars, messageVars>>
    \/ \E id \in UserNodes : UserRenameToContainer(id) /\ UNCHANGED <<drainVars, backgroundVars, callVars, replayVars, messageVars>>
    \/ \E id \in UserNodes \cup ContainerNodes :
          UserRemove(id) /\ UNCHANGED <<drainVars, backgroundVars, callVars, replayVars, messageVars>>
    \/ \E id \in UserNodes \cup ContainerNodes, parentId \in NativeFolders :
          \E index \in 0..Len(nativeTree[parentId].children) :
             UserMove(id, parentId, index) /\ UNCHANGED <<drainVars, backgroundVars, callVars, replayVars, messageVars>>
    \/ \E id \in UserNodes : UserChange(id) /\ UNCHANGED <<drainVars, backgroundVars, callVars, replayVars, messageVars>>
    \/ \E parentId \in NativeFolders :
          \E childIds \in Orderings(nativeTree[parentId].children) :
             UserReorder(parentId, childIds) /\ UNCHANGED <<drainVars, backgroundVars, callVars, replayVars, messageVars>>
    \/ SetSyncBookmarksToolbar /\ UNCHANGED <<drainVars, backgroundVars, callVars, replayVars, messageVars>>
    \/ ProcessChange /\ UNCHANGED <<drainVars, backgroundVars, callVars, replayVars, messageVars>>
    \/ \E ok \in BOOLEAN : Commit(ok) /\ UNCHANGED <<drainVars, backgroundVars, callVars, replayVars, messageVars>>
    \/ RemoteAdd /\ UNCHANGED <<drainVars, backgroundVars, callVars, replayVars, messageVars>>
    \/ \E id \in NonContainerIds(syncedBookmarks) : RemoteRemove(id) /\ UNCHANGED <<drainVars, backgroundVars, callVars, replayVars, messageVars>>

SpecRecon == InitAll /\ [][NextRecon]_vars

InitHosts == InitDrain /\ InitRecon /\ InitBackground /\ InitCalls /\ host \in Hosts

NextBackground ==
    \/ \E s \in SyncIds, type \in SyncTypes :
          SyncBookmarksMessage(s, type) /\ UNCHANGED <<drainVars, reconVars, callVars, replayVars, messageVars>>
    \/ \E c \in ConversionIds, s \in SyncIds :
          createBookmark(c, s) /\ UNCHANGED <<drainVars, reconVars, callVars, replayVars, messageVars>>
    \/ \E s \in SyncIds, ok \in BOOLEAN : toggleOff(s, ok) /\ UNCHANGED <<drainVars, reconVars, callVars, replayVars, messageVars>>
    \/ \E s \in SyncIds : createBookmarkNotLocated(s) /\ UNCHANGED <<drainVars, reconVars, callVars, replayVars, messageVars>>
    \/ \E s \in SyncIds, ok \in BOOLEAN : SyncSettles(s, ok) /\ UNCHANGED <<drainVars, reconVars, callVars, replayVars, messageVars>>
    \/ \E s \in SyncIds, r \in SyncIds :
          refreshLocalSyncData(s, r) /\ UNCHANGED <<drainVars, reconVars, callVars, replayVars, messageVars>>
    \/ \E s \in SyncIds : RefreshSettles(s) /\ UNCHANGED <<drainVars, reconVars, callVars, replayVars, messageVars>>
    \/ \E s \in SyncIds : toggleRead(s) /\ UNCHANGED <<drainVars, reconVars, callVars, replayVars, messageVars>>
    \/ \E s \in SyncIds, ok \in BOOLEAN : toggleApply(s, ok) /\ UNCHANGED <<drainVars, reconVars, callVars, replayVars, messageVars>>
    \/ \E c \in ConversionIds, skip \in BOOLEAN :
          convertNativeBookmarkToSeparator(c, skip) /\ UNCHANGED <<drainVars, reconVars, callVars, replayVars, messageVars>>
    \/ \E c \in ConversionIds, ok \in BOOLEAN :
          convertLocalBookmarkToSeparator(c, ok) /\ UNCHANGED <<drainVars, reconVars, callVars, replayVars, messageVars>>
    \/ \E c \in ConversionIds, outcome \in WriteOutcomes :
          separatorWrite(c, outcome) /\ UNCHANGED <<drainVars, reconVars, callVars, replayVars, messageVars>>
    \/ \E c \in ConversionIds, ok \in BOOLEAN : separatorCatch(c, ok) /\ UNCHANGED <<drainVars, reconVars, callVars, replayVars, messageVars>>
    \/ \E c \in ConversionIds, ok \in BOOLEAN : separatorFinally(c, ok) /\ UNCHANGED <<drainVars, reconVars, callVars, replayVars, messageVars>>
    \/ \E ok \in BOOLEAN : EnableEventListenersMessage(ok) /\ UNCHANGED <<drainVars, reconVars, callVars, replayVars, messageVars>>
    \/ \E ok \in BOOLEAN : DisableEventListenersMessage(ok) /\ UNCHANGED <<drainVars, reconVars, callVars, replayVars, messageVars>>
    \/ SetSyncEnabled /\ UNCHANGED <<drainVars, reconVars, callVars, replayVars, messageVars>>

SpecBackground == InitHosts /\ [][NextBackground]_vars

\* one initial state: the three containers, empty
InitAddBookmark == InitAll /\ syncBookmarksToolbar

\* ------------------------------------------------------------------ separators
\* Globals.Bookmarks.VerticalSeparatorTitle, HorizontalSeparatorTitle and
\* platformSvc.getNewTabUrl()
VerticalSeparatorTitle == "|"

HorizontalSeparatorTitle == "-"

NewTabUrl == "chrome://newtab/"

\* isNativeBookmarkInToolbarContainer
isNativeBookmarkInToolbarContainer(id, native) ==
    native[id].parentId = getNativeContainerIds(native)["toolbar"]

\* the title of a separator in that place
SeparatorTitle(inToolbar) ==
    IF inToolbar THEN VerticalSeparatorTitle ELSE HorizontalSeparatorTitle

\* What a conversion does to the node: nothing ("none"), browser.bookmarks.update
\* of the title ("update"), or remove and create ("recreate").
\* convertLocalBookmarkToSeparator of background.js always removes and creates.
SeparatorWrite(id, native, onHost) ==
    LET title == native[id].title
        url == native[id].url
        inToolbar == isNativeBookmarkInToolbarContainer(id, native)
    IN  IF onHost = "chrome" THEN "recreate"
        ELSE IF \/ (url = NewTabUrl /\ ~inToolbar /\ title = HorizontalSeparatorTitle)
                \/ (inToolbar /\ title = VerticalSeparatorTitle)
           THEN "none"
        ELSE IF \/ (~inToolbar /\ title = VerticalSeparatorTitle)
                \/ (inToolbar /\ title = HorizontalSeparatorTitle)
           THEN "update"
        ELSE "recreate"

\* browser.bookmarks.update(id, { title })
NativeUpdateTitle(native, id, title) == [native EXCEPT ![id].title = title]

\* how the host answers the writes of a conversion
SeparatorOutcomes == {"ok", "updateFailed", "removeFailed", "createFailed"}

\* The conversion of the native node id, from the read of its place to the
\* settling of its promise.  In the service a failed remove or create rejects the
\* conversion; in background.js the callback of chrome.bookmarks.remove issues the
\* create whether or not the remove went through, and resolve is the callback of
\* the create.
SeparatorConversion(id, outcome) ==
    LET write == SeparatorWrite(id, nativeTree, host)
        inToolbar == isNativeBookmarkInToolbarContainer(id, nativeTree)
        title == SeparatorTitle(inToolbar)
        parentId == nativeTree[id].parentId
        index == IndexOf(nativeTree[parentId].children, id)
        newId == NativeId(nativeCreated + 1)
        removed == IF outcome = "removeFailed" THEN nativeTree ELSE NativeRemoveTree(nativeTree, id)
        created == NativeCreate(removed, newId, parentId, index, title, NewTabUrl)
    IN  /\ CASE write = "none" ->
                  /\ outcome = "ok"
                  /\ UNCHANGED <<nativeTree, nativeCreated>>
                  /\ separator' = [status |-> "resolved", input |-> id, write |-> write, node |-> id]
             [] write = "update" ->
                  /\ outcome \in {"ok", "updateFailed"}
                  /\ nativeTree' = IF outcome = "ok" THEN NativeUpdateTitle(nativeTree, id, title)
                                                     ELSE nativeTree
                  /\ UNCHANGED nativeCreated
                  /\ separator' = [status |-> IF outcome = "ok" THEN "resolved" ELSE "rejected",
                                   input |-> id, write |-> write,
                                   node |-> IF outcome = "ok" THEN id ELSE ""]
             [] write = "recreate" ->
                  /\ outcome \in {"ok", "removeFailed", "createFailed"}
                  /\ nativeCreated < MaxNative
                  /\ IF outcome = "createFailed" \/ (outcome = "removeFailed" /\ host = "webext")
                        THEN /\ nativeTree' = removed
                             /\ UNCHANGED nativeCreated
                             /\ separator' = [status |-> IF host = "chrome" THEN "resolved"
                                                                            ELSE "rejected",
                                              input |-> id, write |-> write, node |-> ""]
                        ELSE /\ nativeTree' = created
                             /\ nativeCreated' = nativeCreated + 1
                             /\ separator' = [status |-> "resolved", input |-> id,
                                              write |-> write, node |-> newId]
        /\ UNCHANGED <<syncedBookmarks, bookmarkIdMappings, syncBookmarksToolbar, queuedChanges,
                       pendingCommit, steps, last, passedIn, returned, calls, creation, reordering>>

\* The user drags the node to the toolbar or out of it
SeparatorMoved(id, parentId, index) ==
    /\ parentId # nativeTree[id].parentId
    /\ nativeTree' = NativeMove(nativeTree, id, parentId, index)
    /\ UNCHANGED <<nativeCreated, syncedBookmarks, bookmarkIdMappings, syncBookmarksToolbar,
                   queuedChanges, pendingCommit, steps, last, callVars, replayVars, messageVars>>

\* One native node, of any title and url, in the toolbar or in "other"
InitSeparator ==
    /\ InitDrain /\ InitBackground /\ InitCalls
    /\ host \in Hosts
    /\ \E parentId \in {NativeToolbarId, NativeOtherId},
          title \in {"a", VerticalSeparatorTitle, HorizontalSeparatorTitle},
          url \in {"", "u", NewTabUrl} :
          nativeTree = NativeCreate(
             [n \in {NativeOtherId, NativeToolbarId, NativeMenuId} |->
                CASE n = NativeOtherId -> NativeNode(NativeRootId, "other", "", <<NativeMenuId>>)
                  [] n = NativeToolbarId -> NativeNode(NativeRootId, "toolbar", "", <<>>)
                  [] n = NativeMenuId -> NativeNode(NativeOtherId, "menu", "", <<>>)],
             NativeId(1), parentId, 0, title, url)
    /\ nativeCreated = 1
    /\ syncBookmarksToolbar = TRUE
    /\ syncedBookmarks = <<Bm(1, "menu", "", <<>>), Bm(2, "other", "", <<>>), Bm(3, "toolbar", "", <<>>)>>
    /\ bookmarkIdMappings = <<>>
    /\ queuedChanges = <<>>
    /\ pendingCommit = NoCommit
    /\ steps = 0
    /\ last = NoLast

NextSeparator ==
    \/ \E id \in UserNodes, outcome \in SeparatorOutcomes :
          SeparatorConversion(id, outcome) /\ UNCHANGED <<drainVars, backgroundVars, replayVars, messageVars>>
    \/ \E id \in UserNodes, parentId \in {NativeToolbarId, NativeOtherId} :
          \E index \in 0..Len(nativeTree[parentId].children) :
             SeparatorMoved(id, parentId, index) /\ UNCHANGED <<drainVars, backgroundVars, replayVars, messageVars>>

SpecSeparator == InitSeparator /\ [][NextSeparator]_vars


\* ------------------------------------------------------------------ createNativeBookmarkTree
\* the bookmarks a caller hands to createNativeBookmarkTree
Forests ==
    { <<Bm(4, "a", "", <<Bm(5, "a", "u", <<>>), Bm(6, "b", "u", <<>>)>>), Bm(7, "b", "u", <<>>)>>,
      <<Bm(4, "a", "", <<Bm(5, "a", "", <<Bm(6, "a", "u", <<>>)>>)>>), Bm(7, "b", "u", <<>>)>>,
      <<Bm(4, "a", "", <<Bm(5, "a", "u", <<>>)>>), Bm(6, "b", "", <<Bm(7, "b", "u", <<>>)>>)>>,
      <<Bm(4, "a", "u", <<>>), Bm(5, "b", "", <<Bm(6, "a", "u", <<>>)>>), Bm(7, "a", "u", <<>>)>>,
      <<Bm(4, "a", "", <<Bm(5, "a", "u", <<>>)>>)>> }

\* a reduceRight in place of the reduce: the chain runs from the last bookmark
createRecursiveRight(id, bookmarksToCreate) == [parent |-> id, rest |-> [i \in 1..Len(bookmarksToCreate) |-> bookmarksToCreate[Len(bookmarksToCreate) + 1 - i]], pc |-> "run"]

\* createRecursive(id, bookmarksToCreate, toolbarId): the reduce starts from
\* $q.resolve(), so the callback of the first bookmark is scheduled at once
createRecursive(id, bookmarksToCreate) == [parent |-> id, rest |-> bookmarksToCreate, pc |-> "run"]

\* createNativeBookmarkTree(parentId, bookmarks)
createNativeBookmarkTree(bookmarks) ==
    /\ creation = NoCreation
    /\ creation' = [NoCreation EXCEPT !.bookmarks = bookmarks,
                                      !.levels = <<createRecursive(NativeOtherId, bookmarks)>>,
                                      !.ready = <<1>>]
    /\ UNCHANGED <<reconVars, passedIn, returned, calls, separator, reordering>>

\* the chain of a level after one of its bookmarks is dealt with: the callback
\* of the next bookmark is scheduled, or the chain goes on to $q.all
LevelAfter(level) ==
    [level EXCEPT !.rest = Tail(@), !.pc = IF Len(level.rest) > 1 THEN "run" ELSE "all"]

\* The oldest scheduled callback of a reduce chain runs: with processError set
\* it resolves at once, otherwise it calls createNativeBookmark
createRecursiveCallback ==
    /\ creation.ready # <<>>
    /\ LET l == Head(creation.ready)
           level == creation.levels[l]
       IN  IF creation.processError
              THEN creation' = [creation EXCEPT
                      !.levels[l] = LevelAfter(level),
                      !.ready = IF Len(level.rest) > 1 THEN Append(Tail(@), l) ELSE Tail(@)]
              ELSE creation' = [creation EXCEPT
                      !.levels[l].pc = "wait",
                      !.ready = Tail(@),
                      !.requests = @ \cup {l},
                      !.begun = Append(@, Head(level.rest).id)]
    /\ UNCHANGED <<reconVars, passedIn, returned, calls, separator, reordering>>

\* The host answers the browser.bookmarks.create of level l, once no callback
\* is left to run.  The continuation of createNativeBookmark calls createRecursive
\* for the children and pushes its promise without returning it: the chain of
\* the level goes on to the next sibling.  A failed create rejects the chain of
\* the level, whose catch sets processError.
browserCreateSettles(l, ok) ==
    /\ creation.ready = <<>>
    /\ l \in creation.requests
    /\ LET level == creation.levels[l]
           bookmark == Head(level.rest)
           newId == NativeId(nativeCreated + 1)
           child == Len(creation.levels) + 1
           spawned == IF bookmark.children # <<>> THEN <<child>> ELSE <<>>
           next == IF Len(level.rest) > 1 THEN <<l>> ELSE <<>>
       IN  IF ok
              THEN /\ nativeTree' = NativeCreate(nativeTree, newId, level.parent,
                                                 Len(nativeTree[level.parent].children),
                                                 bookmark.title, bookmark.url)
                   /\ nativeCreated' = nativeCreated + 1
                   /\ creation' = [creation EXCEPT
                         !.requests = @ \ {l},
                         !.created = Append(@, bookmark.id),
                         !.levels = IF bookmark.children # <<>>
                                       THEN Append([@ EXCEPT ![l] = LevelAfter(level)],
                                                   createRecursive(newId, bookmark.children))
                                       ELSE [@ EXCEPT ![l] = LevelAfter(level)],
                         !.ready = @ \o spawned \o next]
              ELSE /\ UNCHANGED <<nativeTree, nativeCreated>>
                   /\ creation' = [creation EXCEPT
                         !.requests = @ \ {l},
                         !.levels[l].pc = "failed",
                         !.processError = TRUE]
    /\ UNCHANGED <<syncedBookmarks, bookmarkIdMappings, syncBookmarksToolbar, queuedChanges,
                   pendingCommit, steps, last, passedIn, returned, calls, separator, reordering>>

NextCreate ==
    \/ \E bookmarks \in Forests :
          createNativeBookmarkTree(bookmarks) /\ UNCHANGED <<drainVars, backgroundVars, replayVars, messageVars>>
    \/ createRecursiveCallback /\ UNCHANGED <<drainVars, backgroundVars, replayVars, messageVars>>
    \/ \E l \in creation.requests, ok \in BOOLEAN :
          browserCreateSettles(l, ok) /\ UNCHANGED <<drainVars, backgroundVars, replayVars, messageVars>>

\* one initial state: the native roots, nothing created yet
InitCreate == InitAll /\ syncBookmarksToolbar

SpecCreate == InitCreate /\ [][NextCreate]_vars

SpecAddBookmark == InitAddBookmark /\ [][NextAddBookmark]_vars

\* ====================================================================
\* reorderUnsupportedContainers (part_000 1037-1055)
\* ====================================================================
\* the native id of the second unsupported container folder
NativeMobileId == "nMobile"

\* the titles a platform may list in unsupportedContainers (the base class lists
\* none, line 49)
UnsupportedContainerLists ==
    {<<>>, <<"menu">>, <<"mobile">>, <<"menu", "mobile">>, <<"mobile", "menu">>}

\* the children "other" may have when the pass starts: the container folders
\* that exist and up to two bookmarks of the user, in any order
OtherChildren ==
    LET nodes == {NativeMenuId, NativeMobileId, "n1", "n2"}
    IN  UNION {{seq \in [1..k -> nodes] : \A i, j \in 1..k : i # j => seq[i] # seq[j]} : k \in 0..4}

\* getNativeBookmarkByTitle: the first node browser.bookmarks.search finds with
\* that title, "" standing for undefined
getNativeBookmarkByTitle(title, native) ==
    LET found == {n \in DOMAIN native : native[n].title = title}
    IN  IF title = "" \/ found = {} THEN "" ELSE CHOOSE n \in found : TRUE

\* reorderUnsupportedContainers(): the searches are issued
reorderUnsupportedContainersCall(unsupportedContainers) ==
    /\ reordering.pc = "idle"
    /\ reordering' = [reordering EXCEPT !.unsupportedContainers = unsupportedContainers,
                                        !.pc = "search"]
    /\ UNCHANGED <<reconVars, passedIn, returned, calls, separator, creation>>

\* $q.all of the searches resolves: falsy results are filtered out and one
\* browser.bookmarks.move per remaining container is issued, all at once, the
\* index being the place of the container among the remaining ones
reorderSearchesResolve ==
    /\ reordering.pc = "search"
    /\ LET titles == reordering.unsupportedContainers
           all == [i \in 1..Len(titles) |-> getNativeBookmarkByTitle(titles[i], nativeTree)]
           results == SelectSeq(all, LAMBDA x : x # "")
       IN  reordering' = [reordering EXCEPT
              !.pc = "move",
              !.results = results,
              !.moves = {[id |-> results[i], index |-> i - 1,
                          parentId |-> nativeTree[results[i]].parentId] : i \in 1..Len(results)}]
    /\ UNCHANGED <<reconVars, passedIn, returned, calls, separator, creation>>

\* one of the moves in flight takes effect in the host
browserBookmarksMove(move) ==
    /\ reordering.pc = "move"
    /\ move \in reordering.moves
    /\ nativeTree' = NativeMove(nativeTree, move.id, move.parentId, move.index)
    /\ reordering' = [reordering EXCEPT
          !.moves = @ \ {move},
          !.inIssueOrder = @ /\ \A other \in reordering.moves : move.index <= other.index]
    /\ UNCHANGED <<nativeCreated, syncedBookmarks, bookmarkIdMappings, syncBookmarksToolbar,
                   queuedChanges, pendingCommit, steps, last,
                   passedIn, returned, calls, separator, creation>>

\* $q.all of the moves resolves: reorderUnsupportedContainers completes
reorderResolves ==
    /\ reordering.pc = "move"
    /\ reordering.moves = {}
    /\ reordering' = [reordering EXCEPT !.pc = "done"]
    /\ UNCHANGED <<reconVars, passedIn, returned, calls, separator, creation>>

InitReorder ==
    /\ InitDrain /\ InitBackground /\ InitCalls /\ host = "chrome"
    /\ \E children \in OtherChildren :
          nativeTree = [n \in {NativeOtherId, NativeToolbarId} \cup {children[i] : i \in 1..Len(children)} |->
             CASE n = NativeOtherId -> NativeNode(NativeRootId, "other", "", children)
               [] n = NativeToolbarId -> NativeNode(NativeRootId, "toolbar", "", <<>>)
               [] n = NativeMenuId -> NativeNode(NativeOtherId, "menu", "", <<>>)
               [] n = NativeMobileId -> NativeNode(NativeOtherId, "mobile", "", <<>>)
               [] OTHER -> NativeNode(NativeOtherId, "a", "u", <<>>)]
    /\ nativeCreated = 2
    /\ syncBookmarksToolbar = TRUE
    /\ syncedBookmarks = <<Bm(1, "menu", "", <<>>), Bm(2, "other", "", <<>>), Bm(3, "toolbar", "", <<>>)>>
    /\ bookmarkIdMappings = <<>>
    /\ queuedChanges = <<>>
    /\ pendingCommit = NoCommit
    /\ steps = 0
    /\ last = NoLast

NextReorder ==
    \/ \E unsupportedContainers \in UnsupportedContainerLists :
          reorderUnsupportedContainersCall(unsupportedContainers) /\ UNCHANGED <<drainVars, backgroundVars, replayVars, messageVars>>
    \/ reorderSearchesResolve /\ UNCHANGED <<drainVars, backgroundVars, replayVars, messageVars>>
    \/ \E move \in reordering.moves : browserBookmarksMove(move) /\ UNCHANGED <<drainVars, backgroundVars, replayVars, messageVars>>
    \/ reorderResolves /\ UNCHANGED <<drainVars, backgroundVars, replayVars, messageVars>>

SpecReorder == InitReorder /\ [][NextReorder]_vars

\* ====================================================================
\* Changes replayed on the native tree (part_000 376-397, 521-557, 697-709,
\* 745-756, 940-953, 1030-1035)
\* ====================================================================
\* the urls a change may carry: none (a folder), one the host supports, one it
\* does not
Urls == {"", "u", "x"}

\* platformSvc.urlIsSupported
urlIsSupported(url) == url # "x"

\* a createNativeBookmark that hands the url to the host as it is
urlAsGiven(url) == url

\* getSupportedUrl: the new-tab url stands in for a url the host does not support
getSupportedUrl(url) ==
    IF url = "" THEN "" ELSE IF urlIsSupported(url) THEN url ELSE NewTabUrl

\* a call to the host: browser.bookmarks.create / update / removeTree; hasUrl
\* tells whether the details carry a url property
HostCall(call, id, parentId, title, url, hasUrl) ==
    [call |-> call, id |-> id, parentId |-> parentId, title |-> title, url |-> url, hasUrl |-> hasUrl]

\* createNativeBookmark(parentId, title, url): the details of browser.bookmarks.create
createNativeBookmark(parentId, title, url) ==
    HostCall("create", "", parentId, title, getSupportedUrl(url), url # "")

\* modifyNativeBookmark(id, newMetadata): updateInfo is built with the title
\* alone, and the url test reads updateInfo.url, which is never set
modifyNativeBookmark(id, title, url) ==
    LET updateInfo == [title |-> title, url |-> ""]
    IN  HostCall("update", id, "", updateInfo.title, getSupportedUrl(updateInfo.url),
                 updateInfo.url # "")

\* removeNativeBookmarks(id)
removeNativeBookmarks(id) == HostCall("removeTree", id, "", "", "", FALSE)

\* the exception each wrapper throws from its catch
FailedException(call) ==
    CASE call = "create" -> "FailedCreateNativeBookmarksException"
      [] call = "update" -> "FailedUpdateNativeBookmarksException"
      [] call = "removeTree" -> "FailedRemoveNativeBookmarksException"

\* processChangeTypeAddOnNativeBookmarks(id, createInfo)
processChangeTypeAddOnNativeBookmarks(id, title, url) ==
    /\ replay.pc \in {"idle", "done"}
    /\ Step
    /\ replay' = [NoReplay EXCEPT
          !.type = "Add", !.id = id, !.title = title, !.url = url, !.pc = "host",
          !.hostCalls = <<createNativeBookmark(getNativeContainerIds(nativeTree)["other"], title, url)>>]
    /\ UNCHANGED <<nativeTree, nativeCreated, syncedBookmarks, bookmarkIdMappings,
                   syncBookmarksToolbar, queuedChanges, pendingCommit, last>>

\* processChangeTypeModifyOnNativeBookmarks(id, updateInfo): without a mapping
\* it resolves at once
processChangeTypeModifyOnNativeBookmarks(id, title, url) ==
    /\ replay.pc \in {"idle", "done"}
    /\ Step
    /\ LET idMapping == getBySyncedId(id, bookmarkIdMappings)
           call == [NoReplay EXCEPT !.type = "Modify", !.id = id, !.title = title, !.url = url]
       IN  replay' = IF idMapping = NoMapping
                        THEN [call EXCEPT !.pc = "done", !.status = "resolved"]
                        ELSE [call EXCEPT !.pc = "host",
                                          !.hostCalls = <<modifyNativeBookmark(idMapping.nativeId, title, url)>>]
    /\ UNCHANGED <<nativeTree, nativeCreated, syncedBookmarks, bookmarkIdMappings,
                   syncBookmarksToolbar, queuedChanges, pendingCommit, last>>

\* processChangeTypeRemoveOnNativeBookmarks(id), up to the call of the host
removeOnNativeBookmarksCall(id) ==
    /\ replay.pc \in {"idle", "done"}
    /\ Step
    /\ LET idMapping == getBySyncedId(id, bookmarkIdMappings)
           call == [NoReplay EXCEPT !.type = "Remove", !.id = id]
       IN  replay' = IF idMapping = NoMapping
                        THEN [call EXCEPT !.pc = "done", !.status = "resolved"]
                        ELSE [call EXCEPT !.pc = "host",
                                          !.hostCalls = <<removeNativeBookmarks(idMapping.nativeId)>>]
    /\ UNCHANGED <<nativeTree, nativeCreated, syncedBookmarks, bookmarkIdMappings,
                   syncBookmarksToolbar, queuedChanges, pendingCommit, last>>

\* a chain that goes on to the mapping table whether the host call failed or not
tableRegardless(type, ok, id, nativeId, mappings) ==
    CASE type = "Add" -> addMapping(createMapping(id, nativeId), mappings)
      [] type = "Remove" -> removeMappings({id}, mappings)
      [] OTHER -> mappings

\* the mapping table after the host call settled: the then callbacks that add
\* or remove the mapping run only when the wrapper resolved
tableAfterHostCall(type, ok, id, nativeId, mappings) ==
    IF ok THEN tableRegardless(type, ok, id, nativeId, mappings) ELSE mappings

\* the native tree after the host carried the call out
NativeAfter(native, call, newId) ==
    CASE call.call = "create" ->
            NativeCreate(native, newId, call.parentId, Len(native[call.parentId].children),
                         call.title, call.url)
      [] call.call = "update" ->
            [native EXCEPT ![call.id].title = call.title,
                           ![call.id].url = IF call.hasUrl THEN call.url ELSE @]
      [] call.call = "removeTree" -> NativeRemoveTree(native, call.id)

\* The host settles the call in flight.  A call that names a node the host does
\* not have fails; any call may fail.
hostCallSettles(ok) ==
    /\ replay.pc = "host"
    /\ LET call == replay.hostCalls[Len(replay.hostCalls)]
           newId == NativeId(nativeCreated + 1)
       IN  /\ ok => (call.call = "create" \/ call.id \in DOMAIN nativeTree)
           /\ nativeTree' = IF ok THEN NativeAfter(nativeTree, call, newId) ELSE nativeTree
           /\ nativeCreated' = IF ok /\ call.call = "create" THEN nativeCreated + 1
                                                             ELSE nativeCreated
           /\ bookmarkIdMappings' = tableAfterHostCall(replay.type, ok, replay.id, newId,
                                                       bookmarkIdMappings)
           /\ replay' = [replay EXCEPT
                 !.pc = "done",
                 !.status = IF ok THEN "resolved" ELSE "rejected",
                 !.error = IF ok THEN "" ELSE FailedException(call.call),
                 !.cause = IF ok THEN "" ELSE "hostError"]
    /\ UNCHANGED <<syncedBookmarks, syncBookmarksToolbar, queuedChanges, pendingCommit,
                   steps, last>>

\* the canonical tree holds a bookmark 4 and a folder 5 in "other"; their
\* native twins n1 and n2 are mapped; the synced id 6 has no mapping
InitReplay ==
    /\ InitDrain /\ InitBackground /\ InitCalls /\ host = "chrome"
    /\ nativeTree = [n \in {NativeOtherId, NativeToolbarId, NativeMenuId, "n1", "n2"} |->
         CASE n = NativeOtherId -> NativeNode(NativeRootId, "other", "", <<NativeMenuId, "n1", "n2">>)
           [] n = NativeToolbarId -> NativeNode(NativeRootId, "toolbar", "", <<>>)
           [] n = NativeMenuId -> NativeNode(NativeOtherId, "menu", "", <<>>)
           [] n = "n1" -> NativeNode(NativeOtherId, "a", "u", <<>>)
           [] n = "n2" -> NativeNode(NativeOtherId, "b", "", <<>>)]
    /\ nativeCreated = 2
    /\ syncBookmarksToolbar = TRUE
    /\ syncedBookmarks = <<Bm(1, "menu", "", <<>>),
                           Bm(2, "other", "", <<Bm(4, "a", "u", <<>>), Bm(5, "b", "", <<>>)>>),
                           Bm(3, "toolbar", "", <<>>)>>
    /\ bookmarkIdMappings = <<createMapping(4, "n1"), createMapping(5, "n2")>>
    /\ queuedChanges = <<>>
    /\ pendingCommit = NoCommit
    /\ steps = 0
    /\ last = NoLast

NextReplay ==
    \/ \E id \in {6}, title \in {"c"}, url \in Urls :
          processChangeTypeAddOnNativeBookmarks(id, title, url) /\ UNCHANGED <<drainVars, backgroundVars, callVars, messageVars>>
    \/ \E id \in {4, 5, 6}, title \in {"c"}, url \in Urls :
          processChangeTypeModifyOnNativeBookmarks(id, title, url) /\ UNCHANGED <<drainVars, backgroundVars, callVars, messageVars>>
    \/ \E id \in {4, 5, 6} : removeOnNativeBookmarksCall(id) /\ UNCHANGED <<drainVars, backgroundVars, callVars, messageVars>>
    \/ \E ok \in BOOLEAN : hostCallSettles(ok) /\ UNCHANGED <<drainVars, backgroundVars, callVars, messageVars>>

SpecReplay == InitReplay /\ [][NextReplay]_vars

\* ====================================================================
\* Messages of the extension window (background.js, onMessageHandler)
\* ====================================================================

\* globals.Commands that onMessageHandler knows, and one it does not
Commands == {"SyncBookmarks", "RestoreBookmarks", "GetCurrentSync",
             "EnableEventListeners", "DisableEventListeners", "Unknown"}

\* the errors bookmarks.Sync rejects with
SyncErrors == {"OutOfSync", "Network"}

\* bookmarks.CheckIfRefreshSyncedDataOnError: the local data is out of sync
CheckIfRefreshSyncedDataOnError(err) == err = "OutOfSync"

Response(success, error) == [success |-> success, error |-> error]

Handled == handling.pc \in {"idle", "done", "rejected"}

\* syncBookmarks begins: toggleEventListeners(false) for a Pull or a Both,
\* $q.resolve() otherwise
syncBookmarksBegins(type) == IF type \in {"Pull", "Both"} THEN "toggleOff" ELSE "sync"

\* sendResponse of the call of syncBookmarks at work: the callback of the message
\* for the call made for it, function () { } for a refresh pull
sendResponse(response) ==
    IF handling.refreshes = 0 THEN Append(handling.responses, response)
                              ELSE handling.responses

\* onMessageHandler: the switch on message.command.  getCurrentSync,
\* disableEventListeners and the default case respond before it returns.
onMessageHandler(command, type, ok) ==
    /\ Handled
    /\ handling' =
         CASE command = "SyncBookmarks" ->
                [NoMessage EXCEPT !.command = command, !.type = type,
                                  !.pc = syncBookmarksBegins(type)]
           [] command = "RestoreBookmarks" ->
                [NoMessage EXCEPT !.command = command, !.type = type, !.pc = "restore"]
           [] command = "GetCurrentSync" ->
                [NoMessage EXCEPT !.command = command, !.pc = "done",
                                  !.responses = <<Response(TRUE, "")>>]
           [] command = "EnableEventListeners" ->
                [NoMessage EXCEPT !.command = command, !.pc = "enable"]
           [] command = "DisableEventListeners" ->
                [NoMessage EXCEPT !.command = command, !.pc = "done",
                                  !.responses = <<Response(ok, IF ok THEN "" ELSE "ListenerError")>>]
           [] OTHER ->
                [NoMessage EXCEPT !.command = command, !.pc = "done",
                                  !.responses = <<Response(FALSE, "UnknownCommand")>>]

\* enableEventListeners: disable, add the listeners, catch, and respond in finally
enableEventListenersResponds(ok) ==
    /\ handling.pc = "enable"
    /\ handling' = [handling EXCEPT !.pc = "done",
                      !.responses = <<Response(ok, IF ok THEN "" ELSE "ListenerError")>>]

\* restoreBookmarks: disableEventListeners answers; on failure the promise is
\* rejected and nothing is chained on the rejection
restoreBookmarksDisables(ok) ==
    /\ handling.pc = "restore"
    /\ handling' = IF ok THEN [handling EXCEPT !.pc = "addIds"]
                        ELSE [handling EXCEPT !.pc = "rejected", !.rejection = "ListenerError"]

\* restoreBookmarks: the ids are unique or platform.Bookmarks.AddIds resolves,
\* and syncBookmarks(restoreData, sendResponse) is called; or AddIds rejects
restoreBookmarksAddsIds(ok) ==
    /\ handling.pc = "addIds"
    /\ handling' = IF ok THEN [handling EXCEPT !.pc = syncBookmarksBegins(handling.type)]
                        ELSE [handling EXCEPT !.pc = "rejected", !.rejection = "AddIdsError"]

\* syncBookmarks: toggleEventListeners(false) settles
syncBookmarksToggles(ok) ==
    /\ handling.pc = "toggleOff"
    /\ handling' = IF ok THEN [handling EXCEPT !.pc = "sync"]
                        ELSE [handling EXCEPT !.pc = "catch", !.rejection = "ListenerError"]

\* bookmarks.Sync resolves
bookmarksSyncResolves ==
    /\ handling.pc = "sync"
    /\ handling' = [handling EXCEPT !.pc = "then",
                      !.syncResolved = IF handling.refreshes = 0 THEN TRUE ELSE @]

\* bookmarks.Sync rejects: its catch runs refreshLocalSyncData, which calls
\* syncBookmarks({ type: Pull }) without a sendResponse, when the error asks for
\* it, and throws the error on otherwise
bookmarksSyncRejects(err) ==
    /\ handling.pc = "sync"
    /\ CheckIfRefreshSyncedDataOnError(err) => handling.refreshes < MaxRefreshes
    /\ handling' =
         [handling EXCEPT
            !.original = IF handling.refreshes = 0 THEN err ELSE @,
            !.refreshed = IF handling.refreshes = 0
                             THEN CheckIfRefreshSyncedDataOnError(err) ELSE @,
            !.refreshes = IF CheckIfRefreshSyncedDataOnError(err) THEN @ + 1 ELSE @,
            !.pc = IF CheckIfRefreshSyncedDataOnError(err)
                      THEN syncBookmarksBegins("Pull") ELSE "catch",
            !.rejection = IF CheckIfRefreshSyncedDataOnError(err) THEN "" ELSE err]

\* .then(function (bookmarks) { sendResponse({ success: true }) ... })
syncBookmarksThen ==
    /\ handling.pc = "then"
    /\ handling' = [handling EXCEPT !.pc = "finally",
                      !.responses = sendResponse(Response(TRUE, ""))]

\* .catch(function (err) { sendResponse({ error: err, success: false }) ... })
syncBookmarksCatch ==
    /\ handling.pc = "catch"
    /\ handling' = [handling EXCEPT !.pc = "finally", !.rejection = "",
                      !.responses = sendResponse(Response(FALSE, handling.rejection))]

\* .finally(toggleEventListeners) settles and the call of syncBookmarks is over.
\* The promise of a refresh pull goes back to the catch that started it: resolved,
\* the error of that catch is thrown; rejected, the rejection is passed on
syncBookmarksFinally(ok) ==
    /\ handling.pc = "finally"
    /\ handling' =
         IF handling.refreshes = 0
            THEN [handling EXCEPT !.pc = "done"]
            ELSE [handling EXCEPT
                    !.refreshes = @ - 1,
                    !.pc = "catch",
                    !.rejection = IF ~ok THEN "ListenerError"
                                  ELSE IF handling.refreshes = 1 THEN handling.original
                                  ELSE "OutOfSync"]

InitMessages == InitAll

NextMessages ==
    \/ \E command \in Commands, type \in SyncTypes, ok \in BOOLEAN :
          onMessageHandler(command, type, ok) /\ UNCHANGED <<drainVars, reconVars, backgroundVars, callVars, replayVars>>
    \/ \E ok \in BOOLEAN : enableEventListenersResponds(ok) /\ UNCHANGED <<drainVars, reconVars, backgroundVars, callVars, replayVars>>
    \/ \E ok \in BOOLEAN : restoreBookmarksDisables(ok) /\ UNCHANGED <<drainVars, reconVars, backgroundVars, callVars, replayVars>>
    \/ \E ok \in BOOLEAN : restoreBookmarksAddsIds(ok) /\ UNCHANGED <<drainVars, reconVars, backgroundVars, callVars, replayVars>>
    \/ \E ok \in BOOLEAN : syncBookmarksToggles(ok) /\ UNCHANGED <<drainVars, reconVars, backgroundVars, callVars, replayVars>>
    \/ bookmarksSyncResolves /\ UNCHANGED <<drainVars, reconVars, backgroundVars, callVars, replayVars>>
    \/ \E err \in SyncErrors : bookmarksSyncRejects(err) /\ UNCHANGED <<drainVars, reconVars, backgroundVars, callVars, replayVars>>
    \/ syncBookmarksThen /\ UNCHANGED <<drainVars, reconVars, backgroundVars, callVars, replayVars>>
    \/ syncBookmarksCatch /\ UNCHANGED <<drainVars, reconVars, backgroundVars, callVars, replayVars>>
    \/ \E ok \in BOOLEAN : syncBookmarksFinally(ok) /\ UNCHANGED <<drainVars, reconVars, backgroundVars, callVars, replayVars>>

SpecMessages == InitMessages /\ [][NextMessages]_vars

\* every continuation of a promise that is due runs and every call settles
SpecMessagesFair ==
    /\ SpecMessages
    /\ WF_messageVars(\E ok \in BOOLEAN : enableEventListenersResponds(ok))
    /\ WF_messageVars(\E ok \in BOOLEAN : restoreBookmarksDisables(ok))
    /\ WF_messageVars(\E ok \in BOOLEAN : restoreBookmarksAddsIds(ok))
    /\ WF_messageVars(\E ok \in BOOLEAN : syncBookmarksToggles(ok))
    /\ WF_messageVars(bookmarksSyncResolves \/ \E err \in SyncErrors : bookmarksSyncRejects(err))
    /\ WF_messageVars(syncBookmarksThen)
    /\ WF_messageVars(syncBookmarksCatch)
    /\ WF_messageVars(\E ok \in BOOLEAN : syncBookmarksFinally(ok))

\* ================================================================== claims
\* ------------------------------------------------------------------ C1
\* C1: during a drain the events are taken in arrival order, and before a drain
\* takes its next event the previous one is fully reconciled: its handler has
\* returned and the syncChange it started (platformSvc.queueSync) has settled.
C1_OrderedAndAwaited ==
    /\ \A i, j \in 1..Len(dispatched) : (i < j) => (dispatched[i] < dispatched[j])
    /\ \A d \in DrainIds : \A i \in 1..(Len(drains[d].taken) - 1) :
          drains[d].taken[i] \in reconciled

\* ------------------------------------------------------------------ C2
\* C2: at most one run of processNativeBookmarkEventsQueue (from its start to the
\* end of its executeSync / reordering / enable steps) is in progress at any time.
C2_SingleDrain == Cardinality({d \in DrainIds : Running(d)}) <= 1

\* ------------------------------------------------------------------ C3
\* C3: every drain invokes executeSync exactly once, only after it found the queue
\* empty; the reordering pass starts only after executeSync resolved and listeners
\* are re-enabled only after the reordering pass.
C3_Order ==
    \A d \in DrainIds :
       /\ drains[d].syncCalls <= 1
       /\ (drains[d].syncCalls > 0) => drains[d].sawEmpty
       /\ (drains[d].pc \in {"disable", "reorder", "enable"}) => drains[d].syncDone
       /\ drains[d].reorderDone => drains[d].syncDone
       /\ drains[d].enabled => drains[d].reorderDone

\* C3, in full: the order above, and a drain that has ended has invoked executeSync
\* exactly once.
C3_ExactlyOneSync ==
    /\ C3_Order
    /\ \A d \in DrainIds : (drains[d].pc \in {"done", "aborted"}) => (drains[d].syncCalls = 1)

\* ------------------------------------------------------------------ C4
\* C4: a drain in which the reconciliation of an event failed still processes the
\* rest of the queue and still invokes executeSync before it ends.
C4_FailureIsolated ==
    \A d \in DrainIds :
       (drains[d].failed /\ Terminal(d)) => (drains[d].sawEmpty /\ drains[d].syncCalls = 1)

\* ------------------------------------------------------------------ reading a step
\* The step is ProcessChange: the engine takes the oldest queued change
IsProcess == queuedChanges # <<>> /\ queuedChanges' = Tail(queuedChanges)

\* The step is RemoteRemove: the canonical tree changes with nothing queued,
\* nothing waiting for its caller and no native node created
IsRemoteRemove ==
    /\ ~pendingCommit.pending /\ ~pendingCommit'.pending
    /\ queuedChanges' = queuedChanges
    /\ nativeCreated' = nativeCreated
    /\ syncedBookmarks' # syncedBookmarks

\* The canonical tree the step leaves: the replacement tree it returned, or the
\* adopted tree
AfterTree == IF pendingCommit'.pending THEN pendingCommit'.bookmarks ELSE syncedBookmarks'

MappedSyncedIds(mappings) == {mappings[i].syncedId : i \in 1..Len(mappings)}

Count(id, seq) == Cardinality({i \in 1..Len(seq) : seq[i] = id})

\* the ids of the subtree below and including the first node of that id
SubtreeIds(id, tree) == {id} \cup IdSet(findBookmarkById(id, tree).children)

\* ------------------------------------------------------------------ C5
OneEntryPerId(mappings) ==
    \A i, j \in 1..Len(mappings) :
       (i # j) => /\ mappings[i].syncedId # mappings[j].syncedId
                  /\ mappings[i].nativeId # mappings[j].nativeId

\* C5: processing a native change on a table that holds at most one entry per
\* syncedId and per nativeId leaves such a table: the classifier never adds a
\* mapping whose syncedId or nativeId is already present.
C5_OneEntryPerId ==
    [][ (IsProcess /\ OneEntryPerId(bookmarkIdMappings))
          => OneEntryPerId(bookmarkIdMappings') ]_vars

\* ------------------------------------------------------------------ C6
\* C6: when a native Remove, a native Move or a remote Remove takes nodes out of
\* the canonical tree, no mapping of a node it took out is left in the table.
C6_RemovedNodesLoseMappings ==
    [][ ((IsProcess /\ Head(queuedChanges).type \in {"Remove", "Move"}) \/ IsRemoteRemove)
          => \A id \in IdSet(syncedBookmarks) \ IdSet(AfterTree) :
                getBySyncedId(id, bookmarkIdMappings') = NoMapping ]_vars

\* ------------------------------------------------------------------ C7
\* a native id the table or the container resolver knows
Known(nativeId) ==
    \/ getContainerNameFromNativeId(nativeId, nativeTree) # ""
    \/ getByNativeId(nativeId, bookmarkIdMappings) # NoMapping

\* the change names only native ids that are mapped (or are containers)
RefsMapped(c) ==
    /\ c.type \in {"Modify", "Move", "Remove", "ChildrenReordered"}
    /\ (c.type # "ChildrenReordered") => (getByNativeId(c.id, bookmarkIdMappings) # NoMapping)
    /\ Known(c.parentId)
    /\ (c.type = "Move") => Known(c.oldParentId)
    /\ \A i \in 1..Len(c.childIds) : Known(c.childIds[i])

\* the mapped syncedIds are exactly the ids of the nodes below the containers
MappedIsTree(tree, mappings) == MappedSyncedIds(mappings) = NonContainerIds(tree)

\* C7: a change that names only mapped native ids, processed on a tree whose
\* non-container ids are exactly the mapped syncedIds, leaves a tree and a table
\* of which that is still true.
C7_MappedIdsAreTreeIds ==
    [][ (IsProcess /\ RefsMapped(Head(queuedChanges))
           /\ MappedIsTree(syncedBookmarks, bookmarkIdMappings))
          => MappedIsTree(AfterTree, bookmarkIdMappings') ]_vars

\* ------------------------------------------------------------------ C8
\* C8: a native Remove of a mapped node with N mapped descendants that returns a
\* tree takes exactly N+1 entries out of the table, and the tree it returns is the
\* old one without the subtree of that node.
C8_RemoveTakesSubtree ==
    [][ (IsProcess /\ Head(queuedChanges).type = "Remove" /\ pendingCommit'.pending)
          => LET syncedId == getByNativeId(Head(queuedChanges).id, bookmarkIdMappings).syncedId
                 subtree == SubtreeIds(syncedId, syncedBookmarks)
                 N == Cardinality({id \in subtree \ {syncedId} :
                                      getBySyncedId(id, bookmarkIdMappings) # NoMapping})
             IN  /\ Len(bookmarkIdMappings) - Len(bookmarkIdMappings') = N + 1
                 /\ TreeIds(AfterTree)
                      = SelectSeq(TreeIds(syncedBookmarks), LAMBDA id : id \notin subtree) ]_vars

\* ------------------------------------------------------------------ C9
\* C9: processing a change leaves the id-mapping table as it was; the table is
\* written only once the caller has adopted the replacement tree.
C9_TableWrittenAfterAdoption ==
    [][ IsProcess => (bookmarkIdMappings' = bookmarkIdMappings) ]_vars

\* ------------------------------------------------------------------ C10
\* the moved node is mapped to a canonical node in a synced location
SourceRelevant(c) ==
    LET m == getByNativeId(c.id, bookmarkIdMappings) IN
    /\ m # NoMapping
    /\ m.syncedId \in IdSet(syncedBookmarks)
    /\ ~(getContainerByBookmarkId(m.syncedId, syncedBookmarks).title = "toolbar"
           /\ ~syncBookmarksToolbar)

\* the new parent resolves to a canonical folder in a synced location
TargetRelevant(c) ==
    LET parentId == ResolveParent(c.parentId, syncedBookmarks, bookmarkIdMappings, nativeTree) IN
    /\ parentId # 0
    /\ parentId \in IdSet(syncedBookmarks)
    /\ ~(getContainerByBookmarkId(parentId, syncedBookmarks).title = "toolbar"
           /\ ~syncBookmarksToolbar)

\* C10: a Move of a node that is not a container gives, when source and target
\* are both relevant, a tree with the moved id once, under the new parent, and
\* every node outside the moved subtree kept; when only the source is, a tree
\* without the moved id and every other node kept; when only the target is, a
\* tree with one node more, under the new parent; otherwise no tree, and the
\* table untouched.
C10_MoveOutcomes ==
    [][ (/\ IsProcess
         /\ Head(queuedChanges).type = "Move"
         /\ Head(queuedChanges).id \in DOMAIN nativeTree
         /\ ~bookmarkIsContainer(nativeTree[Head(queuedChanges).id].title))
          => LET c == Head(queuedChanges)
                 syncedId == getByNativeId(c.id, bookmarkIdMappings).syncedId
                 parentId == ResolveParent(c.parentId, syncedBookmarks, bookmarkIdMappings,
                                           nativeTree)
                 before == TreeIds(syncedBookmarks)
                 after == TreeIds(AfterTree)
                 others == IdSet(syncedBookmarks) \ SubtreeIds(syncedId, syncedBookmarks)
                 underParent == {findBookmarkById(parentId, AfterTree).children[i].id :
                                   i \in 1..Len(findBookmarkById(parentId, AfterTree).children)}
             IN  CASE SourceRelevant(c) /\ TargetRelevant(c) ->
                        /\ pendingCommit'.pending
                        /\ Count(syncedId, after) = 1
                        /\ syncedId \in underParent
                        /\ \A id \in others : Count(id, after) = Count(id, before)
                   [] SourceRelevant(c) /\ ~TargetRelevant(c) ->
                        /\ pendingCommit'.pending
                        /\ Count(syncedId, after) = 0
                        /\ \A id \in others : Count(id, after) = Count(id, before)
                   [] ~SourceRelevant(c) /\ TargetRelevant(c) ->
                        /\ pendingCommit'.pending
                        /\ Len(after) = Len(before) + 1
                        /\ \A id \in IdSet(syncedBookmarks) : Count(id, after) >= Count(id, before)
                        /\ \E id \in underParent : Count(id, after) = Count(id, before) + 1
                   [] OTHER ->
                        /\ ~pendingCommit'.pending
                        /\ bookmarkIdMappings' = bookmarkIdMappings ]_vars

\* ------------------------------------------------------------------ C11
\* the sync s writes to the native tree, has disabled the listeners and has
\* not yet finished its own final cleanup
WritingSync(s) ==
    /\ syncs[s].type \in {"Pull", "Both"}
    /\ syncs[s].disabled
    /\ syncs[s].pc \in {"Sync", "refresh", "toggle", "apply"}

\* C11: while a Pull or Both sync is in progress, from the moment it disabled
\* the listeners until its own final cleanup, the native listeners are not
\* registered, whatever other syncBookmarks calls, separator conversions or
\* EnableEventListeners messages run in between.
C11_ListenersOffWhileWriting ==
    \A s \in SyncIds : WritingSync(s) => ~registered

\* ------------------------------------------------------------------ C12
\* a cleanup of the engine ends: the .finally of syncBookmarks or of a
\* separator conversion
CleanupStep ==
    \/ \E s \in SyncIds : syncs[s].pc = "apply" /\ syncs'[s].pc = "done"
    \/ \E c \in ConversionIds : conversions[c].pc = "finally" /\ conversions'[c].pc = "done"

\* C12: when the engine re-enables the listeners after its own writes, they
\* become registered only if the persisted syncEnabled flag is true at that
\* moment; if the user disabled sync during the pass they stay off.
C12_ReenableRespectsFlag ==
    [][(CleanupStep /\ ~registered /\ registered') => syncEnabled]_vars

\* ------------------------------------------------------------------ C13
\* C13: a separator conversion issues a native write only after it has disabled
\* the listeners, and once it has tried to disable them its cleanup has run by
\* the time it is over: after a successful write, after a failed write and
\* after a failed disabling.
C13_DisableBeforeWriteAndCleanup ==
    \A c \in ConversionIds :
        /\ conversions[c].wrote => conversions[c].disabled
        /\ conversions[c].pc = "write" => conversions[c].disabled
        /\ (conversions[c].pc = "done" /\ conversions[c].tried) => conversions[c].cleanup

\* a conversion is over whose disabling failed, and its cleanup has run
C13_Witness ==
    \E c \in ConversionIds :
        /\ conversions[c].pc = "done"
        /\ conversions[c].tried /\ ~conversions[c].disabled
        /\ conversions[c].cleanup

\* ------------------------------------------------------------------ C14
\* C14: a drain that has disabled the listeners for the reordering of the
\* unsupported containers has enabled them again by the time it is over,
\* also when reorderUnsupportedContainers failed.
C14_ReenabledAfterReorder ==
    \A d \in DrainIds :
        (drains[d].pc = "done" /\ drains[d].syncDone) => drains[d].enabled

\* ------------------------------------------------------------------ C15
\* the canonical parent a ChildrenReordered change is about: the container of
\* that native root, or the node the parent's mapping points to
ReorderParent(c) ==
    LET containerName == getContainerNameFromNativeId(c.parentId, nativeTree)
        parentMapping == getByNativeId(c.parentId, bookmarkIdMappings)
    IN  IF containerName # "" THEN getContainer(containerName, syncedBookmarks)
        ELSE IF parentMapping = NoMapping THEN Undefined
        ELSE findBookmarkById(parentMapping.syncedId, syncedBookmarks)

\* C15: a native ChildrenReordered change that is processed leaves every
\* canonical child of the parent that has no mapping in the children list, at the
\* position it had.
C15_UnmappedChildrenStay ==
    [][(/\ IsProcess
        /\ Head(queuedChanges).type = "ChildrenReordered"
        /\ ReorderParent(Head(queuedChanges)) # Undefined
        /\ OneEntryPerId(bookmarkIdMappings))
       => LET parent == ReorderParent(Head(queuedChanges))
              before == parent.children
              after  == findBookmarkById(parent.id, AfterTree).children
          IN  \A i \in 1..Len(before) :
                 getBySyncedId(before[i].id, bookmarkIdMappings) = NoMapping
                    => (i <= Len(after) /\ after[i] = before[i])]_vars

\* ------------------------------------------------------------------ C16
\* C16: a native Add of a node that lies under no reserved container root and
\* no mapped folder is dropped without error: the handler of the event does not
\* fail (and no canonical tree or mapping comes out of it).
C16_UnplacedAddDroppedQuietly ==
    \A s \in SyncIds : syncs[s].rejected => ~syncs[s].failed

\* ------------------------------------------------------------------ C17
\* the change processed now is a native Add of a bookmark directly under the
\* native "other" root
IsAddUnderOther ==
    /\ IsProcess
    /\ Head(queuedChanges).type = "Add"
    /\ Head(queuedChanges).parentId = NativeOtherId
    /\ ~wasContainerChanged(Head(queuedChanges))
    /\ getByNativeId(NativeOtherId, bookmarkIdMappings) = NoMapping

RECURSIVE UnderNativeToolbar(_)
\* the native node is the toolbar root or lies below it
UnderNativeToolbar(id) ==
    IF id = NativeToolbarId THEN TRUE
    ELSE IF id \notin DOMAIN nativeTree THEN FALSE
    ELSE UnderNativeToolbar(nativeTree[id].parentId)

\* the native edit touches the toolbar container only
ToolbarOnly(c) ==
    CASE c.type = "Add" -> UnderNativeToolbar(c.parentId)
      [] c.type = "Modify" -> UnderNativeToolbar(c.parentId)
      [] c.type = "Remove" -> UnderNativeToolbar(c.parentId)
      [] c.type = "Move" -> UnderNativeToolbar(c.parentId) /\ UnderNativeToolbar(c.oldParentId)
      [] OTHER -> FALSE

\* a mapped native node of the toolbar has its canonical twin in the canonical
\* toolbar container
TwinInToolbar(nativeId) ==
    LET m == getByNativeId(nativeId, bookmarkIdMappings)
        container == getContainerByBookmarkId(m.syncedId, syncedBookmarks)
    IN  (m # NoMapping) => (container # Undefined /\ container.title = "toolbar")

\* the nodes the edit names are mapped consistently with where they are
ToolbarTwins(c) ==
    /\ TwinInToolbar(c.id)
    /\ TwinInToolbar(c.parentId)
    /\ (c.type = "Move") => TwinInToolbar(c.oldParentId)

\* C18, first half: with the "sync toolbar" setting off a native add, modify,
\* move or remove that touches the toolbar only returns no canonical tree and
\* leaves the mapping table as it is.
C18_ToolbarOffNoMutation ==
    [][(/\ IsProcess /\ ~syncBookmarksToolbar
        /\ ToolbarOnly(Head(queuedChanges)) /\ ToolbarTwins(Head(queuedChanges)))
          => (~pendingCommit'.pending /\ bookmarkIdMappings' = bookmarkIdMappings)]_vars

\* C18 as stated: with the setting off a toolbar-only add, modify, move or
\* remove gives no canonical mutation and no mapping change; with the setting on
\* the same edit gives exactly one canonical mutation.
C18_ToolbarEdits ==
    [][(/\ IsProcess
        /\ ToolbarOnly(Head(queuedChanges)) /\ ToolbarTwins(Head(queuedChanges)))
          => IF syncBookmarksToolbar
                THEN pendingCommit'.pending
                ELSE ~pendingCommit'.pending /\ bookmarkIdMappings' = bookmarkIdMappings]_vars

\* ------------------------------------------------------------------ C19
\* the change processed now is the native move of a node that carries the title
\* of a reserved container
IsContainerMove ==
    /\ IsProcess
    /\ Head(queuedChanges).type = "Move"
    /\ Head(queuedChanges).id \in DOMAIN nativeTree
    /\ nativeTree[Head(queuedChanges).id].title \in {"menu", "mobile", "other", "toolbar"}

\* C19: the native move of a reserved container to a different parent fails with
\* ContainerChanged, its reposition within the same parent is ignored; either
\* way no canonical tree is returned and the mapping table is unchanged.
C19_ContainerMove ==
    [][IsContainerMove =>
         /\ IF Head(queuedChanges).oldParentId # Head(queuedChanges).parentId
               THEN last'.status = "failed" /\ last'.error = "ContainerChanged"
               ELSE last'.status = "skipped"
         /\ ~pendingCommit'.pending
         /\ bookmarkIdMappings' = bookmarkIdMappings]_vars

\* the move of a reserved container to another parent has just been processed
C19_Witness ==
    /\ last.change.type = "Move"
    /\ last.change.oldParentId # last.change.parentId
    /\ last.change.id = NativeMenuId
    /\ last.error = "ContainerChanged"

\* ------------------------------------------------------------------ C20
\* C20, classification: a native Add, Modify or Remove for which
\* wasContainerChanged holds fails with ContainerChanged, with no canonical tree
\* returned and the mapping table as it was.
C20_ContainerChangeFails ==
    [][(/\ IsProcess
        /\ Head(queuedChanges).type \in {"Add", "Modify", "Remove"}
        /\ wasContainerChanged(Head(queuedChanges)))
          => /\ last'.status = "failed" /\ last'.error = "ContainerChanged"
             /\ ~pendingCommit'.pending
             /\ bookmarkIdMappings' = bookmarkIdMappings]_vars

\* the sync of the oldest change in flight settles with a failure: the change
\* does not reach the engine's queue
SyncOfChangeFails ==
    /\ syncChangesInFlight # <<>>
    /\ syncChangesInFlight' = Tail(syncChangesInFlight)
    /\ syncQueue' = syncQueue

\* C20, surfacing: the failure of a change's sync is not swallowed: the drain
\* that waits for the change ends as failed, so that the error reaches its caller
\* and the notification path.
C20_FailureSurfaced ==
    [][SyncOfChangeFails =>
         \E d \in DrainIds :
            /\ Head(syncChangesInFlight) \in {drains[d].taken[i] : i \in 1..Len(drains[d].taken)}
            /\ drains'[d].failed]_vars

\* ------------------------------------------------------------------ C21
\* the step processes a Move whose old and new parent are the same
IsSameParentMove ==
    /\ IsProcess
    /\ Head(queuedChanges).type = "Move"
    /\ Head(queuedChanges).oldParentId = Head(queuedChanges).parentId

\* C21: a native Move whose old and new parent are the same gives no tree or one
\* replacement tree that holds the nodes of the old tree, each as often as
\* before, the moved node possibly at another position: nothing is removed from
\* the canonical tree, and at most one node (a moved node that had no canonical
\* twin) is new.
C21_SameParentMove ==
    [][ (IsSameParentMove /\ pendingCommit'.pending)
          => LET before == TreeIds(syncedBookmarks)
                 after == TreeIds(AfterTree)
             IN  /\ \A id \in IdSet(syncedBookmarks) : Count(id, after) = Count(id, before)
                 /\ Len(after) <= Len(before) + 1 ]_vars

\* ------------------------------------------------------------------ C22
\* the step is a call of addBookmark
IsAddBookmarkCall == calls' = calls + 1

\* the children of the first node of that id
ChildrenOf(id, tree) == findBookmarkById(id, tree).children

\* C22: addBookmark(metadata, parentId, index, tree) throws BookmarkNotFound
\* when no node of tree has id parentId; otherwise it returns a replacement
\* tree that is the tree passed in with one new node, of an id not yet in
\* use, among the children of parentId at index; in both cases the tree the
\* caller passed in is as it was before the call.
C22_AddBookmark ==
    [][ IsAddBookmarkCall
          => LET parentId == returned'.parentId
                 bookmark == returned'.bookmark
             IN  /\ passedIn' = passedIn
                 /\ (parentId \notin IdSet(passedIn))
                       => (returned'.status = "thrown" /\ returned'.error = "BookmarkNotFound")
                 /\ (parentId \in IdSet(passedIn))
                       => /\ returned'.status = "returned"
                          /\ bookmark.id \notin IdSet(passedIn)
                          /\ Len(TreeIds(returned'.bookmarks)) = Len(TreeIds(passedIn)) + 1
                          /\ ChildrenOf(parentId, returned'.bookmarks)
                               = Splice(ChildrenOf(parentId, passedIn), returned'.index, bookmark)
                          /\ removeBookmarkById(bookmark.id, returned'.bookmarks) = passedIn ]_vars

\* a call named a parent that is not in a tree grown by earlier calls
C22_Witness ==
    /\ returned.status = "thrown"
    /\ returned.parentId # 0
    /\ Len(TreeIds(passedIn)) > 4

\* ------------------------------------------------------------------ C23
\* the step is a conversion of a native node to a separator
IsSeparatorConversion == separator' # separator \/ nativeCreated' # nativeCreated

\* the node is the separator of its place
IsSeparatorOf(id, native) ==
    /\ native[id].url = NewTabUrl
    /\ native[id].title = SeparatorTitle(isNativeBookmarkInToolbarContainer(id, native))

\* C23, never a duplicate and no write for a correct separator: in the service
\* at most one native node stands for the node at any time, and the conversion
\* of a node that is already the separator of its place issues no native write.
C23_NoDuplicateNoWrite ==
    [][ (IsSeparatorConversion /\ host = "webext")
          => /\ Cardinality(UserNodes') <= 1
             /\ IsSeparatorOf(separator'.input, nativeTree)
                   => (separator'.write = "none" /\ nativeTree' = nativeTree) ]_vars

\* C23: in the service, every conversion of the node that resolves, for the
\* vertical (toolbar parent) and for the horizontal (any other parent)
\* orientation in turn, leaves exactly one native node for it, with the title
\* and the url of the separator of the place it is in, never a duplicate; and
\* the conversion of a node that is already that separator issues no native write.
C23_OneConsistentNode ==
    [][ (IsSeparatorConversion /\ host = "webext")
          => /\ Cardinality(UserNodes') <= 1
             /\ IsSeparatorOf(separator'.input, nativeTree)
                   => (separator'.write = "none" /\ nativeTree' = nativeTree)
             /\ (separator'.status = "resolved")
                   => /\ UserNodes' = {separator'.node}
                      /\ IsSeparatorOf(separator'.node, nativeTree') ]_vars

\* ------------------------------------------------------------------ C25
\* C25: when a conversion (convertNativeBookmarkToSeparator of the service,
\* convertLocalBookmarkToSeparator of background.js) has completed with a node,
\* that node has the new-tab url and the vertical separator title when its parent
\* is the toolbar root, the horizontal separator title otherwise.
C25_SeparatorEncoding ==
    [][ (IsSeparatorConversion /\ separator'.status = "resolved" /\ separator'.node # "")
          => /\ nativeTree'[separator'.node].url = NewTabUrl
             /\ nativeTree'[separator'.node].title
                  = IF nativeTree'[separator'.node].parentId = NativeToolbarId
                       THEN VerticalSeparatorTitle ELSE HorizontalSeparatorTitle ]_vars

\* C25 for background.js alone: the node convertLocalBookmarkToSeparator resolves
\* with is the separator of its place
C25_LocalSeparatorEncoding ==
    [][ (IsSeparatorConversion /\ host = "chrome" /\ separator'.node # "")
          => IsSeparatorOf(separator'.node, nativeTree') ]_vars

\* ------------------------------------------------------------------ C24
\* the step is a call of queueNativeBookmarkEvent
IsQueueEvent == arrived' = arrived + 1

\* the step starts a run of processNativeBookmarkEventsQueue
DrainStarts(d) == Terminal(d) /\ drains'[d].pc = "condition"

\* C24: queueNativeBookmarkEvent appends the event at the tail of the queue,
\* cancels the pending debounce timer and starts a new one, so at most one
\* debounce timer is pending at any time; and the timer that starts a drain is
\* the one the latest event started: no event arrived while it ran its 200ms.
C24_Debounce ==
    [][ /\ Cardinality(debounceTimers') <= 1
        /\ IsQueueEvent
              => /\ Len(nativeBookmarkEventsQueue') = Len(nativeBookmarkEventsQueue) + 1
                 /\ SubSeq(nativeBookmarkEventsQueue', 1, Len(nativeBookmarkEventsQueue))
                      = nativeBookmarkEventsQueue
                 /\ nativeBookmarkEventsQueue'[Len(nativeBookmarkEventsQueue')].n = arrived'
                 /\ debounceTimers' = {arrived'}
        /\ \A d \in DrainIds :
              DrainStarts(d) => (debounceTimers = {arrived} /\ drains'[d].timer = arrived) ]_vars

\* a drain was started by a timer that an earlier event's timer had been
\* cancelled for, with that event still in front of the queue
C24_Witness ==
    \E d \in DrainIds :
       /\ drains[d].pc = "condition"
       /\ drains[d].timer >= 2
       /\ Len(nativeBookmarkEventsQueue) >= 2
       /\ debounceTimers = {}

\* ------------------------------------------------------------------ C26
RECURSIVE SiblingsBefore(_, _)
\* the bookmarks that precede the bookmark of that id in the list it is in
SiblingsBefore(id, nodes) ==
    LET here == {i \in 1..Len(nodes) : nodes[i].id = id}
        below == {i \in 1..Len(nodes) : id \in IdSet(nodes[i].children)}
    IN  IF here # {} THEN SubSeq(nodes, 1, Min(here) - 1)
        ELSE IF below # {} THEN SiblingsBefore(id, nodes[Min(below)].children)
        ELSE <<>>

\* the step begins the creation of a bookmark: createNativeBookmark is called
IsCreateBegin == Len(creation'.begun) = Len(creation.begun) + 1

\* the ids of the bookmarks whose native creation has ended
CreatedIds == {creation.created[i] : i \in 1..Len(creation.created)}

\* C26 as amended: createNativeBookmarkTree creates the siblings of each level
\* strictly in list order, one at a time: when the creation of a bookmark
\* begins, every sibling that precedes it in its list has been created (its
\* descendants may still be in the making).
C26_SiblingsInListOrder ==
    [][ IsCreateBegin
          => LET id == creation'.begun[Len(creation'.begun)]
                 before == SiblingsBefore(id, creation.bookmarks)
             IN  \A i \in 1..Len(before) : before[i].id \in CreatedIds ]_vars

\* the creation of a bookmark has begun after a sibling with children was created
C26_Witness ==
    \E i \in 1..Len(creation.begun) :
        LET before == SiblingsBefore(creation.begun[i], creation.bookmarks)
        IN  \E j \in 1..Len(before) :
                /\ before[j].children # <<>>
                /\ before[j].id \in CreatedIds
                /\ ~(IdSet(<<before[j]>>) \subseteq CreatedIds)

\* C26 as stated: createNativeBookmarkTree creates the siblings of each level in list
\* order, and when the creation of a bookmark begins, every sibling that
\* precedes it in its list has been created together with all its descendants.
C26_SiblingSubtreesFirst ==
    [][ IsCreateBegin
          => LET id == creation'.begun[Len(creation'.begun)]
                 before == SiblingsBefore(id, creation.bookmarks)
             IN  \A i \in 1..Len(before) : IdSet(<<before[i]>>) \subseteq CreatedIds ]_vars

\* ------------------------------------------------------------------ C27
\* the unsupported containers found are the first children of "other", in the
\* order of unsupportedContainers
ContainersAtFront ==
    LET kids == nativeTree[NativeOtherId].children
    IN  \A i \in 1..Len(reordering.results) :
           i <= Len(kids) /\ kids[i] = reordering.results[i]

\* C27: after reorderUnsupportedContainers completes, whatever the order in
\* which its moves took effect, the unsupported containers that exist natively
\* occupy indices 0..k-1 of their parent, in the order of unsupportedContainers.
C27_ContainersAtFront == reordering.pc = "done" => ContainersAtFront

\* the same when the moves took effect in the order they were issued
C27_InIssueOrder ==
    (reordering.pc = "done" /\ reordering.inIssueOrder) => ContainersAtFront

\* ------------------------------------------------------------------ C28
\* the canonical id of the node an Add or a Move puts into the tree: the mapped
\* id of a moved node, otherwise the id that is new in the tree (0 when none)
PlacedId(c) ==
    LET m == getByNativeId(c.id, bookmarkIdMappings)
        newIds == IdSet(AfterTree) \ IdSet(syncedBookmarks)
    IN  IF c.type = "Move" /\ m # NoMapping THEN m.syncedId
        ELSE IF newIds = {} THEN 0 ELSE CHOOSE id \in newIds : TRUE

\* the places a node of that id has among the children of the first node of
\* the parent id, counted from 0
PlacesUnder(id, parentId, tree) ==
    LET kids == ChildrenOf(parentId, tree)
    IN  {i - 1 : i \in {j \in 1..Len(kids) : kids[j].id = id}}

\* the container folders among the first index native children of "other"
ContainersBefore(index) ==
    LET kids == nativeTree[NativeOtherId].children
    IN  Cardinality({i \in 1..Len(kids) : i <= index /\ bookmarkIsContainer(nativeTree[kids[i]].title)})

\* the step processes an Add or a Move that puts a node under its new parent
IsPlacement ==
    /\ IsProcess
    /\ Head(queuedChanges).type \in {"Add", "Move"}
    /\ pendingCommit'.pending
    /\ LET c == Head(queuedChanges)
           parentId == ResolveParent(c.parentId, syncedBookmarks, bookmarkIdMappings, nativeTree)
       IN  /\ parentId # 0
           /\ PlacesUnder(PlacedId(c), parentId, AfterTree) # {}

\* C28: a node added to or moved into the native "other" root is inserted in the
\* canonical tree at the native index less the number of container folders
\* before that index among the native children of "other" (at the end when the
\* parent has fewer children); under any other parent at the native index.
C28_InsertionIndex ==
    [][ IsPlacement
          => LET c == Head(queuedChanges)
                 parentId == ResolveParent(c.parentId, syncedBookmarks, bookmarkIdMappings, nativeTree)
                 index == IF c.parentId = NativeOtherId THEN c.index - ContainersBefore(c.index)
                                                        ELSE c.index
                 atEnd == Len(ChildrenOf(parentId, AfterTree)) - 1
             IN  PlacesUnder(PlacedId(c), parentId, AfterTree)
                    = {IF index < atEnd THEN index ELSE atEnd} ]_vars

\* the same for the Move alone
C28_MoveInsertionIndex ==
    [][ (IsPlacement /\ Head(queuedChanges).type = "Move")
          => LET c == Head(queuedChanges)
                 parentId == ResolveParent(c.parentId, syncedBookmarks, bookmarkIdMappings, nativeTree)
                 index == IF c.parentId = NativeOtherId THEN c.index - ContainersBefore(c.index)
                                                        ELSE c.index
                 atEnd == Len(ChildrenOf(parentId, AfterTree)) - 1
             IN  PlacesUnder(PlacedId(c), parentId, AfterTree)
                    = {IF index < atEnd THEN index ELSE atEnd} ]_vars

\* ------------------------------------------------------------------ C30
\* no id occurs twice in the tree
UniqueIds(tree) == \A id \in IdSet(tree) : Count(id, TreeIds(tree)) = 1

\* C30: the canonical tree a native Move returns holds every id at most once,
\* also when the moved bookmark is mapped and only the target side of the move
\* is relevant to the sync.
C30_MoveKeepsIdsUnique ==
    [][ (/\ IsProcess
         /\ Head(queuedChanges).type = "Move"
         /\ pendingCommit'.pending
         /\ UniqueIds(syncedBookmarks))
          => UniqueIds(AfterTree) ]_vars

\* ------------------------------------------------------------------ C29
\* the step processes an Add or a Move of a node that is no container, whose
\* new parent resolves to a folder of the canonical tree, without an error
IsCheckedPlacement ==
    /\ IsProcess
    /\ Head(queuedChanges).type \in {"Add", "Move"}
    /\ last'.status # "failed"
    /\ LET c == Head(queuedChanges)
           parentId == ResolveParent(c.parentId, syncedBookmarks, bookmarkIdMappings, nativeTree)
       IN  /\ c.id \in DOMAIN nativeTree
           /\ ~bookmarkIsContainer(nativeTree[c.id].title)
           /\ ~wasContainerChanged(c)
           /\ parentId \in IdSet(syncedBookmarks)

\* the container of the new parent is the toolbar while the toolbar is not synced
IntoUnsyncedToolbar(c) ==
    LET parentId == ResolveParent(c.parentId, syncedBookmarks, bookmarkIdMappings, nativeTree)
    IN  /\ getContainerByBookmarkId(parentId, syncedBookmarks).title = "toolbar"
        /\ ~syncBookmarksToolbar

\* the moved node has a canonical twin that is in the toolbar while the toolbar
\* is not synced
SourceInUnsyncedToolbar(c) ==
    LET m == getByNativeId(c.id, bookmarkIdMappings)
    IN  /\ c.type = "Move"
        /\ m # NoMapping
        /\ ~syncBookmarksToolbar
        /\ \E i \in 1..Len(syncedBookmarks) :
              /\ syncedBookmarks[i].title = "toolbar"
              /\ m.syncedId \in IdSet(<<syncedBookmarks[i]>>)

\* the step returns a tree that has the node under its new parent
IsPlaced(c) ==
    /\ pendingCommit'.pending
    /\ PlacesUnder(PlacedId(c), ResolveParent(c.parentId, syncedBookmarks, bookmarkIdMappings, nativeTree),
                   AfterTree) # {}

\* C29, the case in which the node was not already in a toolbar left out of the
\* sync: the node is put under its new parent exactly when that parent is not
\* in such a toolbar.
C29_FromSyncedLocation ==
    [][ (IsCheckedPlacement /\ ~SourceInUnsyncedToolbar(Head(queuedChanges)))
          => (IsPlaced(Head(queuedChanges)) <=> ~IntoUnsyncedToolbar(Head(queuedChanges))) ]_vars

\* C29: the check of an Add and of the add side of a Move looks at the container
\* the node is in once the change is applied: the node is put under its new
\* parent exactly when that parent is not in a toolbar left out of the sync,
\* wherever the node came from.
C29_CheckedOnNewLocation ==
    [][ IsCheckedPlacement
          => (IsPlaced(Head(queuedChanges)) <=> ~IntoUnsyncedToolbar(Head(queuedChanges))) ]_vars

\* ------------------------------------------------------------------ C31
\* the step is the host failing the call of the change being replayed
IsHostFailure == replay.pc = "host" /\ replay'.status = "rejected"

\* C31: when the host fails the create, update or removeTree of a replayed
\* change, the change fails with the exception of that call
\* (FailedCreate/FailedUpdate/FailedRemove) carrying the host error as its cause,
\* the host was called exactly once, and the mapping table is as it was.
C31_HostFailure ==
    [][ IsHostFailure
          => /\ replay'.error = (CASE replay.type = "Add" -> "FailedCreateNativeBookmarksException"
                                   [] replay.type = "Modify" -> "FailedUpdateNativeBookmarksException"
                                   [] replay.type = "Remove" -> "FailedRemoveNativeBookmarksException")
             /\ replay'.cause = "hostError"
             /\ Len(replay'.hostCalls) = 1
             /\ replay'.hostCalls[1].call = (CASE replay.type = "Add" -> "create"
                                               [] replay.type = "Modify" -> "update"
                                               [] replay.type = "Remove" -> "removeTree")
             /\ bookmarkIdMappings' = bookmarkIdMappings
             /\ nativeTree' = nativeTree ]_vars

\* the host has failed the removeTree of a mapped node, after an earlier change
C31_Witness ==
    /\ replay.status = "rejected"
    /\ replay.type = "Remove"
    /\ getBySyncedId(replay.id, bookmarkIdMappings) # NoMapping
    /\ nativeCreated = 2
    /\ steps >= 2

\* ------------------------------------------------------------------ C33
\* C33: createNativeBookmark asks the host to create the node with the new-tab
\* url when the url it is given is one the host does not support, with the url
\* as given when the host supports it, and with no url property when it is
\* given none; the create the host accepts resolves with a node of that url.
C33_CreateUrl ==
    (replay.type = "Add" /\ replay.pc \in {"host", "done"})
      => LET call == replay.hostCalls[1]
             url == CASE replay.url = "" -> ""
                      [] replay.url = "x" -> NewTabUrl
                      [] OTHER -> replay.url
         IN  /\ call.call = "create"
             /\ call.title = replay.title
             /\ call.hasUrl = (replay.url # "")
             /\ call.url = url
             /\ replay.status = "resolved"
                  => /\ NativeId(nativeCreated) \in DOMAIN nativeTree
                     /\ nativeTree[NativeId(nativeCreated)].url = url
                     /\ nativeTree[NativeId(nativeCreated)].title = replay.title

\* a bookmark with a url the host does not support has been created
C33_Witness ==
    /\ replay.type = "Add"
    /\ replay.url = "x"
    /\ replay.status = "resolved"
    /\ nativeTree[NativeId(nativeCreated)].url = NewTabUrl

\* ------------------------------------------------------------------ C40
\* a Modify has been replayed and its promise resolved
IsModifyReplayed == replay.type = "Modify" /\ replay.status = "resolved"

\* C40: a remote Modify replayed on the native tree gives the mapped native
\* node the new title and, when the new metadata carries a url, that url (the
\* new-tab url when the host does not support it); for a synced id without a
\* mapping the host is not called.
C40_ModifyReplayed ==
    IsModifyReplayed
      => LET idMapping == getBySyncedId(replay.id, bookmarkIdMappings)
             url == IF replay.url = "x" THEN NewTabUrl ELSE replay.url
         IN  IF idMapping = NoMapping
                THEN replay.hostCalls = <<>>
                ELSE /\ nativeTree[idMapping.nativeId].title = replay.title
                     /\ replay.url # "" => nativeTree[idMapping.nativeId].url = url

\* the same without the url: the title is updated, and nothing is written for
\* a synced id without a mapping
C40_TitleReplayed ==
    IsModifyReplayed
      => LET idMapping == getBySyncedId(replay.id, bookmarkIdMappings)
         IN  IF idMapping = NoMapping
                THEN replay.hostCalls = <<>>
                ELSE nativeTree[idMapping.nativeId].title = replay.title

\* ------------------------------------------------------------------ C32
\* the step processes a Modify or a Remove of a native id without a mapping
IsUnmappedChange ==
    /\ IsProcess
    /\ Head(queuedChanges).type \in {"Modify", "Remove"}
    /\ getByNativeId(Head(queuedChanges).id, bookmarkIdMappings) = NoMapping

\* the change is dropped: no error, no tree, tree and table as they were
DroppedQuietly ==
    /\ last'.status = "skipped"
    /\ last'.error = ""
    /\ ~pendingCommit'.pending
    /\ syncedBookmarks' = syncedBookmarks
    /\ bookmarkIdMappings' = bookmarkIdMappings

\* C32 as stated: a native Modify or Remove of a native id that has no mapping
\* is dropped: no canonical tree is returned, tree and mapping table are
\* unchanged, and no error is raised.
C32_UnmappedDropped == [][IsUnmappedChange => DroppedQuietly]_vars

\* C32 as amended: a native Modify or Remove of a native id that has no mapping
\* and is not a reserved container is dropped: no canonical tree is returned,
\* tree and mapping table are unchanged, and no error is raised.
C32_UnmappedNodeDropped ==
    [][(IsUnmappedChange /\ ~wasContainerChanged(Head(queuedChanges))) => DroppedQuietly]_vars

\* a Modify or Remove of an unmapped node that is no container has been skipped
C32_Witness ==
    /\ last.change.type \in {"Modify", "Remove"}
    /\ last.status = "skipped"
    /\ ~bookmarkIsContainer(last.change.title)
    /\ getByNativeId(last.change.id, bookmarkIdMappings) = NoMapping

\* ------------------------------------------------------------------ C36
\* how often a node occurs in a list of nodes
Occurrences(node, nodes) == Cardinality({i \in 1..Len(nodes) : nodes[i] = node})

\* the step processes a ChildrenReordered change whose parent is found
IsChildrenReordered ==
    /\ IsProcess
    /\ Head(queuedChanges).type = "ChildrenReordered"
    /\ ReorderParent(Head(queuedChanges)) # Undefined
    /\ pendingCommit'.pending

\* C36: processChangeTypeChildrenReorderedOnBookmarks only permutes the children
\* of the parent: the list after holds the same nodes as the list before, each
\* as often, none dropped, duplicated or replaced by an undefined entry, and
\* every node outside that list is unchanged.
C36_OnlyPermutes ==
    [][ IsChildrenReordered
          => LET parent == ReorderParent(Head(queuedChanges))
                 before == parent.children
                 after == ChildrenOf(parent.id, AfterTree)
             IN  /\ Len(after) = Len(before)
                 /\ \A i \in 1..Len(before) : Occurrences(before[i], after) = Occurrences(before[i], before)
                 /\ \A i \in 1..Len(after) : after[i] # Undefined
                 /\ ReplaceChildren(AfterTree, parent.id, before) = syncedBookmarks ]_vars

\* the rest of the tree alone: every node outside the children list of the
\* parent is unchanged
C36_RestUnchanged ==
    [][ IsChildrenReordered
          => ReplaceChildren(AfterTree, ReorderParent(Head(queuedChanges)).id,
                             ReorderParent(Head(queuedChanges)).children) = syncedBookmarks ]_vars

\* ------------------------------------------------------------------ C37
\* the step processes a ChildrenReordered change whose parent is neither a
\* reserved container root nor a mapped folder
IsUnresolvedReorder ==
    /\ IsProcess
    /\ Head(queuedChanges).type = "ChildrenReordered"
    /\ getContainerNameFromNativeId(Head(queuedChanges).parentId, nativeTree) = ""
    /\ getByNativeId(Head(queuedChanges).parentId, bookmarkIdMappings) = NoMapping

\* C37: a native ChildrenReordered change whose parent is neither a reserved
\* container root nor a mapped folder is dropped without error, and leaves the
\* canonical tree and the mapping table unchanged.
C37_UnresolvedReorderDropped == [][IsUnresolvedReorder => DroppedQuietly]_vars

\* the same without the error: no tree is returned, tree and table are unchanged
C37_UnresolvedReorderNoEffect ==
    [][ IsUnresolvedReorder
          => /\ ~pendingCommit'.pending
             /\ syncedBookmarks' = syncedBookmarks
             /\ bookmarkIdMappings' = bookmarkIdMappings ]_vars

\* ---------------------------------------------------------------------------
\* C34
\* ---------------------------------------------------------------------------

QueuedEvents == {nativeBookmarkEventsQueue[i].n : i \in 1..Len(nativeBookmarkEventsQueue)}

DispatchedEvents == {dispatched[i] : i \in 1..Len(dispatched)}

\* C34: across every interleaving of arrivals, timers and drains no event is
\* dispatched twice, and an event that has arrived is either still queued or
\* has been dispatched, never both and never neither
C34_DispatchedOnce ==
    /\ \A i, j \in 1..Len(dispatched) : (dispatched[i] = dispatched[j]) => (i = j)
    /\ QueuedEvents \cap DispatchedEvents = {}
    /\ QueuedEvents \cup DispatchedEvents = 1..arrived

\* C34 (step form): a step that takes an event from the queue takes the first
\* one and dispatches exactly that event
C34_TakenIsDispatched ==
    [][(Len(nativeBookmarkEventsQueue') < Len(nativeBookmarkEventsQueue))
         => /\ nativeBookmarkEventsQueue' = Tail(nativeBookmarkEventsQueue)
            /\ dispatched' = Append(dispatched, Head(nativeBookmarkEventsQueue).n)]_vars

\* two drains run side by side and each has dispatched an event
C34_Witness ==
    \E d1, d2 \in DrainIds :
        /\ d1 # d2
        /\ Running(d1) /\ Running(d2)
        /\ Len(drains[d1].taken) > 0
        /\ Len(drains[d2].taken) > 0

\* ---------------------------------------------------------------------------
\* C35
\* ---------------------------------------------------------------------------

\* executeSync has been invoked by a drain that started its 100ms timer
SyncInvoked == \E d \in DrainIds : drains[d].pc = "executeSync"

\* a run of the drain ended in a rejection that nothing handled
DrainAborted == \E d \in DrainIds : drains[d].pc = "aborted"

\* C35: with timers and continuations scheduled fairly, every event that is in
\* the queue is eventually out of it, dispatched, with executeSync invoked
C35_EventuallySynced ==
    \A n \in 1..MaxEvents :
        (n \in QueuedEvents) ~> (n \in DispatchedEvents /\ SyncInvoked)

\* C35 (what holds): every queued event is eventually dispatched and followed
\* by an executeSync, or a run of the drain is aborted by a rejection
C35_SyncedUnlessAborted ==
    \A n \in 1..MaxEvents :
        (n \in QueuedEvents) ~> ((n \in DispatchedEvents /\ SyncInvoked) \/ DrainAborted)

\* ---------------------------------------------------------------------------
\* C38
\* ---------------------------------------------------------------------------

\* the handling of the message is over: its chain settled or was left rejected
MessageOver == handling.pc \in {"done", "rejected"}

IsSync == handling.command \in {"SyncBookmarks", "RestoreBookmarks"}

\* C38: sendResponse is never called a second time, a message whose handling is
\* over was answered once, and the answer to a sync says success exactly when
\* bookmarks.Sync resolved
C38_OneResponse ==
    /\ Len(handling.responses) <= 1
    /\ MessageOver => Len(handling.responses) = 1
    /\ (MessageOver /\ IsSync /\ Len(handling.responses) = 1)
          => (handling.responses[1].success <=> handling.syncResolved)

\* C38 (what holds): the same, for every message but a RestoreBookmarks whose
\* chain was rejected before syncBookmarks was called
C38_OneResponseUnlessRestoreRejected ==
    /\ Len(handling.responses) <= 1
    /\ (handling.pc = "done") => Len(handling.responses) = 1
    /\ (handling.pc = "rejected")
          => (handling.command = "RestoreBookmarks" /\ handling.responses = <<>>)
    /\ (handling.pc = "done" /\ IsSync)
          => (handling.responses[1].success <=> handling.syncResolved)

\* ---------------------------------------------------------------------------
\* C39
\* ---------------------------------------------------------------------------

\* C39: a call of syncBookmarks for which refreshLocalSyncData was run reports,
\* once it is over, the error its own bookmarks.Sync rejected with
C39_OriginalErrorReported ==
    (handling.pc = "done" /\ handling.refreshed)
       => (handling.responses = <<Response(FALSE, handling.original)>>)

\* C39 (the chain is finite): the chain of nested refresh pulls ends below the
\* bound of the model
C39_ChainBelowBound == handling.refreshes < MaxRefreshes

\* C39 (what holds): after a refresh the response is a failure, and its error is
\* the original one unless the toggleEventListeners of the refresh pull rejected
C39_FailureReported ==
    (handling.pc = "done" /\ handling.refreshed)
       => /\ Len(handling.responses) = 1
          /\ ~handling.responses[1].success
          /\ handling.responses[1].error \in {handling.original, "ListenerError"}

\* C39 (what holds): with the refresh pulls capped, every message is handled to
\* its end when continuations run
C39_HandledToTheEnd == (~Handled) ~> Handled

====
